---- MODULE Spec2Model ----
(***************************************************************************)
(* TritonTube placement and replication core.                              *)
(*                                                                         *)
(* The module holds one state machine per subsystem, all over the same     *)
(* variables; a specification runs one subsystem and leaves the variables  *)
(* of the others unchanged:                                                *)
(*   Spec      metadata service (pgxsim store, etcdsim mirror, clients)    *)
(*   SpecCAS   two concurrent PutMetadata calls on one existing key        *)
(*   SpecSeq   the metadata service with a single sequential caller        *)
(*   SpecList  ListMetadata paging over a quiescent store                  *)
(*   SpecRing, SpecRing2   one ring, two independently built rings         *)
(*   SpecFS    FS.Put with a failure injected at any step                  *)
(*   SpecUpload   Service.UploadSegment                                    *)
(*   SpecManager  RingManagers on one store, their Watch, the Rebalancer   *)
(*   SpecRebalance   one RingManager under heartbeats with a Rebalancer    *)
(*   SpecConverge    two RingManagers, their watchers, no more updates     *)
(*   SpecTokens   RingManager token lists under colliding token hashes     *)
(*   SpecGet   the metadata service with GetMetadata                       *)
(*   SpecRetry   the retry loop of PutMetadata under fair scheduling       *)
(*   SpecWatch   one Watch with a Rebalancer, foreign events, cancellation *)
(*   SpecWeb   the /upload handler of the web front end                    *)
(***************************************************************************)
EXTENDS Integers, Sequences, FiniteSets, TLC

VARIABLES
    entries,      \* pgxsim.Store.entries: key -> Record (NoRec when absent)
    etcdKV,       \* etcdsim.Client.kv for the mirror keys: key -> kvPair (NoKV when absent)
    etcdRev,      \* etcdsim.Client.revision
    maxRetries,   \* metadata.Service.maxRetries
    cl,           \* one record per caller of the metadata service: position and locals
    calls,        \* number of PutMetadata/DeleteMetadata calls issued so far
    returned,     \* history: per key, the versions returned by successful PutMetadata, in completion order
    v0,           \* SpecCAS: the version the key had when the two calls were issued
    lst,          \* SpecList: the paging loop of one reader
    hashOf,       \* chash: Ring.hash on the token names "<node>#<i>" (the SHA-1 prefix, uninterpreted)
    ring,         \* chash: Ring.tokens of each independently built ring
    files,        \* storage.FS: the object's final path and its ".tmp" path
    fsRes,        \* the outcome of the last FS.Put call, with its inputs
    upCfg,        \* storage.Service: replicationFactor and whether a MetadataStore is configured
    up,           \* the UploadSegment call in progress: position and locals
    uploads,      \* number of UploadSegment calls issued so far
    segRecords,   \* the SegmentRecord stored under <segments-prefix>/<segment_id>
    getRes,       \* the answer of the last GetMetadata call, with the caller's preceding call
    ringStore,    \* etcd: the ring state stored under <prefix>/ring, if any
    mgr,          \* RingManager.state of each manager: version, nodes, tokens
    watching,     \* whether the manager's Watch goroutine and etcd subscription run
    watchCh,      \* etcdsim: the subscription channel of each manager's Watch
    held,         \* the RingEvent the Watch goroutine has applied and is about to send
    events,       \* the RingEvent channel returned by RingManager.Watch
    reb,          \* Rebalancer.Run on manager m1: position and the plan in execution
    started,      \* history: the plans handed to ExecutePlan, in order
    persisted,    \* history: the ring states written to the store, in order
    mgrCalls,     \* number of UpsertNode/RemoveNode calls issued so far
    mgrRes,       \* per manager, the outcome of its last UpsertNode/RemoveNode call
    ctx,          \* per manager, the context given to Watch and the closing of its two channels
    executorNil,  \* Rebalancer.Executor is nil
    web           \* the web front end: UPLOAD_W and the /upload request in progress

metaVars == <<entries, etcdKV, etcdRev, maxRetries, cl, calls, returned, v0>>
listVars == <<lst>>
ringVars == <<hashOf, ring>>
fsVars == <<files, fsRes>>
upVars == <<upCfg, up, uploads, segRecords>>
getVars == <<getRes>>
webVars == <<web>>
mgrCtl == <<ctx, executorNil>>
mgrVars == <<ringStore, mgr, watching, watchCh, held, events, reb, started, persisted, mgrCalls, mgrRes,
            mgrCtl>>
vars == <<entries, etcdKV, etcdRev, maxRetries, cl, calls, returned, v0, lst, hashOf, ring,
          files, fsRes, upCfg, up, uploads, segRecords, getRes,
          ringStore, mgr, watching, watchCh, held, events, reb, started, persisted, mgrCalls, mgrRes,
          ctx, executorNil, web>>

\* What the actions of one subsystem leave alone.
notMeta == <<listVars, ringVars, fsVars, upVars, mgrVars, getVars, webVars>>
notList == <<metaVars, ringVars, fsVars, upVars, mgrVars, getVars, webVars>>
notRing == <<metaVars, listVars, fsVars, upVars, mgrVars, getVars, webVars>>
notFS == <<metaVars, listVars, ringVars, upVars, mgrVars, getVars, webVars>>
notUpload == <<metaVars, listVars, hashOf, ring, mgrVars, getVars, webVars>>
notGet == <<listVars, ringVars, fsVars, upVars, mgrVars, webVars>>
notMgr == <<metaVars, listVars, ringVars, fsVars, upVars, getVars, webVars>>
notWeb == <<metaVars, listVars, ringVars, fsVars, upVars, getVars, mgrVars>>

----------------------------------------------------------------------------
(* Bounds *)

MaxCalls == 3          \* calls issued in one behaviour of Spec
MaxRetriesCfg == 2     \* maxRetries is drawn from 1..MaxRetriesCfg
MaxInitVer == 2        \* SpecCAS starts with the key at a version in 1..MaxInitVer
MaxLimit == 3          \* ListMetadata limits are drawn from 0..MaxLimit

MaxPayload == 2        \* payloads are byte strings of length 0..MaxPayload
MaxMgrCalls == 3        \* SpecManager: UpsertNode/RemoveNode calls
MaxRebalanceCalls == 10 \* SpecRebalance: UpsertNode calls
MaxConvergeCalls == 9   \* SpecConverge: UpsertNode calls
MaxTokenCalls == 2      \* SpecTokens: UpsertNode/RemoveNode calls and restarts
MaxWatchCalls == 3      \* SpecWatch: UpsertNode calls and writes of other clients
MaxW == 3               \* SpecWeb: UPLOAD_W is drawn from 0..MaxW
MaxReplicas == 3        \* SpecWeb: the metadata service names up to MaxReplicas replicas
MaxUploads == 1        \* UploadSegment calls issued in one behaviour of SpecUpload
HashMax == 2           \* token and key hashes are drawn from 0..HashMax

(* Program constants *)

DefaultLimit == 100     \* ListMetadata: limit <= 0 means 100
DefaultMaxRetries == 5  \* NewService: MaxRetries <= 0 means 5
WatchBuffer == 8        \* etcdsim Client.Watch: make(chan WatchResponse, 8)
EventBuffer == 8        \* RingManager.Watch: make(chan RingEvent, 8)

----------------------------------------------------------------------------
(* Strings are sequences of characters (small naturals); Go compares      *)
(* strings bytewise, which is the lexicographic order LexLess.            *)

RECURSIVE LexLess(_, _)
LexLess(a, b) ==
    IF b = <<>> THEN FALSE
    ELSE IF a = <<>> THEN TRUE
    ELSE IF Head(a) < Head(b) THEN TRUE
    ELSE IF Head(a) > Head(b) THEN FALSE
    ELSE LexLess(Tail(a), Tail(b))

\* pgxsim.hasPrefix
hasPrefix(s, prefix) ==
    IF Len(prefix) = 0 THEN TRUE
    ELSE IF Len(prefix) > Len(s) THEN FALSE
    ELSE SubSeq(s, 1, Len(prefix)) = prefix

\* The keys of the catalogue: "1", "10", "11", "12", "2", "20" over the characters 0..2.
KeyUniverse == { <<1>>, <<1, 0>>, <<1, 1>>, <<1, 2>>, <<2>>, <<2, 0>> }
Prefixes == { <<>>, <<1>>, <<2>>, <<1, 1>> }
\* The keys the concurrent callers of Spec and SpecCAS work on.
MetaKeys == { <<1>> }
Values == { "a", "b" }
Clients == { "c1", "c2" }

\* chash: the node ids, the token names "<node>#<i>" and the hash values.
NodeIds == { "A", "B", "C" }
VNodes == 2
TokenNames == NodeIds \X (0..(VNodes - 1))
HashSpace == 0..HashMax
RingIds == { 1, 2 }

\* storage: byte strings, files, and the values of calls not made yet.
Bytes == { 0, 1 }
Payloads == UNION { [1..n -> Bytes] : n \in 0..MaxPayload }
NoFile == [exists |-> FALSE, bytes |-> <<>>]
Faults == { "none", "mkdir", "create", "copy", "sync", "close", "rename" }
NoPut == [data |-> <<>>, fault |-> "none", before |-> NoFile, n |-> 0, sum |-> <<>>, err |-> "none"]
Mgrs == { "m1", "m2" }
EmptyState == [version |-> 0, nodes |-> {}, tokens |-> <<>>]
NoStore == [present |-> FALSE, state |-> EmptyState]
NoEvent == [version |-> -1, assignments |-> <<>>]
NoCall == [op |-> "none", err |-> "none", version |-> 0]
IdleRebalancer == [pc |-> "idle", plan |-> NoEvent]
LiveCtx == [done |-> FALSE, chClosed |-> FALSE, eventsClosed |-> FALSE]
IdleWeb == [pc |-> "idle", W |-> 1, replicas |-> <<>>, results |-> <<>>, success |-> 0, status |-> 0]
Self == "A"
TaskNames == NodeIds \cup { "s3" }
NoRecord == [written |-> FALSE, primary |-> "none", replicas |-> <<>>, checksum |-> <<>>, size |-> 0]
IdleUpload ==
    [pc |-> "idle", data |-> <<>>, s3 |-> FALSE, localOK |-> FALSE, size |-> 0, checksum |-> <<>>,
     targets |-> <<>>, pending |-> {}, results |-> [t \in TaskNames |-> "none"], rpcs |-> {},
     status |-> <<>>, agg |-> "none", record |-> NoRecord, err |-> "none"]

NoRec == [version |-> 0, value |-> "none"]
NoKV == [modRevision |-> 0, value |-> "none", version |-> 0]

\* sort.Slice(items, Key <): the keys of a set in ascending order.
RECURSIVE SortKeys(_)
SortKeys(S) ==
    IF S = {} THEN <<>>
    ELSE LET m == CHOOSE x \in S : \A y \in S \ {x} : LexLess(x, y)
         IN <<m>> \o SortKeys(S \ {m})

----------------------------------------------------------------------------
(* pgxsim: the relational store and its optimistic transactions *)

\* Tx.Get on a transaction that has written nothing yet: the committed row, if any.
\* The version read goes to the transaction's readset (0 for an absent key).
TxGet(store, key) ==
    [ok |-> store[key] # NoRec, rec |-> store[key]]

\* Mutant of ReadsetInvalid: Commit applies the writes without validating.
ReadsetInvalid_NoCheck(expectedVersion, current) ==
    FALSE

\* Tx.Commit, validation of the readset: the key was read at expectedVersion
\* and current is the committed row now.
ReadsetInvalid(expectedVersion, current) ==
    IF current = NoRec THEN expectedVersion # 0
    ELSE current.version # expectedVersion

\* Tx.List: the rows whose key has the prefix, in key order, cut to limit (limit > 0).
TxList(store, prefix, limit) ==
    LET items == SortKeys({k \in DOMAIN store : store[k] # NoRec /\ hasPrefix(k, prefix)})
    IN IF limit > 0 /\ Len(items) > limit THEN SubSeq(items, 1, limit) ELSE items

----------------------------------------------------------------------------
(* etcdsim: the coordination store *)

\* A compare phase that always succeeds.
CompareSucceeds_Always(kv, key, expRev) == TRUE

\* Mutant of CompareSucceeds: a compare on the mod revision never matches.
CompareSucceeds_OnlyWithout(kv, key, expRev) == expRev < 0

\* Txn.Commit, the compare phase: with no compare the transaction succeeds;
\* an absent key counts as mod revision 0.
CompareSucceeds(kv, key, expRev) ==
    IF expRev >= 0 THEN kv[key].modRevision = expRev ELSE TRUE

----------------------------------------------------------------------------
(* metadata.Service *)

\* A guard that lets every PutMetadata through.
PutGuard_NoCheck(expVer, ok, existing) == "OK"

\* PutMetadata, the expected-version guard inside the transaction.
PutGuard(expVer, ok, existing) ==
    IF expVer > 0 /\ ~ok THEN "NotFound"
    ELSE IF expVer > 0 /\ existing.version # expVer THEN "VersionMismatch"
    ELSE "OK"

\* PutMetadata, the version written: 1 for a new row, existing + 1 otherwise.
NextVersion(ok, existing) ==
    IF ok THEN existing.version + 1 ELSE 1

\* A guard that lets every DeleteMetadata through.
DeleteGuard_NoCheck(expVer, ok, existing) == "OK"

\* DeleteMetadata, the guards inside the transaction.
DeleteGuard(expVer, ok, existing) ==
    IF ~ok THEN "NotFound"
    ELSE IF expVer > 0 /\ existing.version # expVer THEN "VersionMismatch"
    ELSE "OK"

\* A retry loop that never gives up.
RetryAgain_Always(attempt, budget) == TRUE

\* Service.retry: after a serialisation failure of attempt number `attempt`
\* (0-based) the loop runs fn again while attempt + 1 < maxRetries.
RetryAgain(attempt, budget) ==
    attempt + 1 < budget

\* No GetMetadata call yet.
NoGet == [key |-> <<>>, res |-> "none", value |-> "none", version |-> 0, prev |-> "none"]

\* stale is a history field, not a field of the program: it tells that another
\* transaction committed a write or delete of the key after this call's open
\* transaction read it.
IdleClient ==
    [pc |-> "idle", op |-> "none", key |-> <<>>, value |-> "none",
     expVer |-> 0, expRev |-> -1, attempt |-> 0, readVer |-> 0, newVer |-> 0,
     res |-> "none", resVer |-> 0, resRev |-> 0, stale |-> FALSE]

\* The call returns: its locals are dropped; the operation, its key, item value
\* and expected version, the number of attempts that failed and the answer
\* stay visible.
Finish(c, res, ver, rev) ==
    [IdleClient EXCEPT !.pc = "done", !.op = cl[c].op, !.key = cl[c].key,
                       !.value = cl[c].value, !.expVer = cl[c].expVer, !.attempt = cl[c].attempt,
                       !.res = res, !.resVer = ver, !.resRev = rev]

\* A caller issues PutMetadata(item{key, value}, expected_version, expected_etcd_revision).
PutStart(c, k, val, ev, er) ==
    /\ cl[c].pc \in {"idle", "done"}
    /\ calls < MaxCalls
    /\ cl' = [cl EXCEPT ![c] = [IdleClient EXCEPT !.pc = "txget", !.op = "put", !.key = k,
                                                  !.value = val, !.expVer = ev, !.expRev = er]]
    /\ calls' = calls + 1
    /\ UNCHANGED <<entries, etcdKV, etcdRev, maxRetries, returned, v0>>

\* A caller issues DeleteMetadata(key, expected_version, expected_etcd_revision).
DeleteStart(c, k, ev, er) ==
    /\ cl[c].pc \in {"idle", "done"}
    /\ calls < MaxCalls
    /\ cl' = [cl EXCEPT ![c] = [IdleClient EXCEPT !.pc = "txget", !.op = "del", !.key = k,
                                                  !.expVer = ev, !.expRev = er]]
    /\ calls' = calls + 1
    /\ UNCHANGED <<entries, etcdKV, etcdRev, maxRetries, returned, v0>>

\* One attempt of the retried function up to its Commit: BeginTx, tx.Get, the
\* guards, tx.Put or tx.Delete (buffered in the transaction). An error other
\* than a serialisation failure ends the call at once.
TxBody(c) ==
    /\ cl[c].pc = "txget"
    /\ LET got == TxGet(entries, cl[c].key)
           guard == IF cl[c].op = "put"
                    THEN PutGuard(cl[c].expVer, got.ok, got.rec)
                    ELSE DeleteGuard(cl[c].expVer, got.ok, got.rec)
       IN IF guard # "OK"
          THEN cl' = [cl EXCEPT ![c] = Finish(c, guard, 0, 0)]
          ELSE cl' = [cl EXCEPT ![c].pc = "commit",
                                ![c].readVer = got.rec.version,
                                ![c].newVer = IF cl[c].op = "put"
                                              THEN NextVersion(got.ok, got.rec) ELSE 0]
    /\ UNCHANGED <<entries, etcdKV, etcdRev, maxRetries, calls, returned, v0>>

\* tx.Commit of the attempt: a stale readset is a serialisation failure, which
\* retry answers with another attempt or, the budget spent, with the error.
TxCommit(c) ==
    /\ cl[c].pc = "commit"
    /\ IF ReadsetInvalid(cl[c].readVer, entries[cl[c].key])
       THEN /\ cl' = [cl EXCEPT ![c] =
                        IF RetryAgain(cl[c].attempt, maxRetries)
                        THEN [cl[c] EXCEPT !.pc = "txget", !.attempt = @ + 1,
                                           !.readVer = 0, !.newVer = 0, !.stale = FALSE]
                        ELSE [Finish(c, "Serialization", 0, 0) EXCEPT !.attempt = @ + 1]]
            /\ UNCHANGED entries
       ELSE /\ entries' = [entries EXCEPT ![cl[c].key] =
                              IF cl[c].op = "put"
                              THEN [version |-> cl[c].newVer, value |-> cl[c].value]
                              ELSE NoRec]
            /\ cl' = [d \in Clients |->
                        IF d = c THEN [cl[c] EXCEPT !.pc = "etcd", !.readVer = 0]
                        ELSE IF cl[d].pc = "commit" /\ cl[d].key = cl[c].key
                        THEN [cl[d] EXCEPT !.stale = TRUE]
                        ELSE cl[d]]
    /\ UNCHANGED <<etcdKV, etcdRev, maxRetries, calls, returned, v0>>

\* The coordination-store transaction that mirrors the committed row
\* (If mod_revision = expected, Then Put / Delete), and the return of the call.
EtcdTxn(c) ==
    /\ cl[c].pc = "etcd"
    /\ LET k == cl[c].key IN
       IF ~CompareSucceeds(etcdKV, k, cl[c].expRev)
       THEN /\ cl' = [cl EXCEPT ![c] = Finish(c, "RevisionConflict", 0, 0)]
            /\ UNCHANGED <<etcdKV, etcdRev, returned>>
       ELSE IF cl[c].op = "put"
       THEN /\ etcdRev' = etcdRev + 1
            /\ etcdKV' = [etcdKV EXCEPT ![k] = [modRevision |-> etcdRev + 1,
                                                value |-> cl[c].value,
                                                version |-> cl[c].newVer]]
            /\ cl' = [cl EXCEPT ![c] = Finish(c, "OK", cl[c].newVer, etcdRev + 1)]
            /\ returned' = [returned EXCEPT ![k] = Append(@, cl[c].newVer)]
       ELSE /\ etcdRev' = IF etcdKV[k] # NoKV THEN etcdRev + 1 ELSE etcdRev
            /\ etcdKV' = [etcdKV EXCEPT ![k] = NoKV]
            /\ cl' = [cl EXCEPT ![c] = Finish(c, "OK", 0, etcdRev')]
            /\ UNCHANGED returned
    /\ UNCHANGED <<entries, maxRetries, calls, v0>>

\* The expected versions and revisions a caller passes: none, the one it
\* last read, or a stale one.
ExpVers(k) == {0, 1, entries[k].version}
ExpRevs(k) == {-1, 0, etcdKV[k].modRevision}

MetaInit ==
    /\ entries = [k \in KeyUniverse |-> NoRec]
    /\ etcdKV = [k \in KeyUniverse |-> NoKV]
    /\ etcdRev = 0
    /\ maxRetries \in 1..MaxRetriesCfg
    /\ cl = [c \in Clients |-> IdleClient]
    /\ calls = 0
    /\ returned = [k \in KeyUniverse |-> <<>>]
    /\ v0 = 0
    /\ getRes = NoGet

ListIdle == [pc |-> "off", prefix |-> <<>>, limit |-> 0, token |-> <<>>, out |-> <<>>, pages |-> 0]

\* The subsystems a specification does not run stay in these states.
ListOff == lst = ListIdle
WebOff == web = IdleWeb
RingOff ==
    /\ hashOf = [p \in TokenNames |-> 0]
    /\ ring = [r \in RingIds |-> <<>>]

FSOff ==
    /\ files = [final |-> NoFile, tmp |-> NoFile]
    /\ fsRes = NoPut
UploadOff ==
    /\ upCfg = [replicationFactor |-> 1, hasMetadata |-> FALSE]
    /\ up = IdleUpload
    /\ uploads = 0
    /\ segRecords = NoRecord

MgrOff ==
    /\ ringStore = NoStore
    /\ mgr = [m \in Mgrs |-> EmptyState]
    /\ watching = [m \in Mgrs |-> FALSE]
    /\ watchCh = [m \in Mgrs |-> <<>>]
    /\ held = [m \in Mgrs |-> NoEvent]
    /\ events = [m \in Mgrs |-> <<>>]
    /\ reb = IdleRebalancer
    /\ started = <<>>
    /\ persisted = <<>>
    /\ mgrCalls = 0
    /\ mgrRes = [m \in Mgrs |-> NoCall]
    /\ ctx = [m \in Mgrs |-> LiveCtx]
    /\ executorNil = FALSE

Init ==
    /\ MetaInit
    /\ ListOff /\ WebOff
    /\ RingOff
    /\ FSOff
    /\ UploadOff
    /\ MgrOff

\* The metadata service with the callers CS running concurrently.
MetaNext(CS) ==
    \/ \E c \in CS, k \in MetaKeys, val \in Values :
         \E ev \in ExpVers(k), er \in ExpRevs(k) :
            PutStart(c, k, val, ev, er) /\ UNCHANGED notMeta
    \/ \E c \in CS, k \in MetaKeys :
         \E ev \in ExpVers(k), er \in ExpRevs(k) :
            DeleteStart(c, k, ev, er) /\ UNCHANGED notMeta
    \/ \E c \in CS : TxBody(c) /\ UNCHANGED notMeta
    \/ \E c \in CS : TxCommit(c) /\ UNCHANGED notMeta
    \/ \E c \in CS : EtcdTxn(c) /\ UNCHANGED notMeta

Next == MetaNext(Clients)

Spec == Init /\ [][Next]_vars

\* One caller at a time: every call returns before the next is issued.
NextSeq == MetaNext({"c1"})

SpecSeq == Init /\ [][NextSeq]_vars

----------------------------------------------------------------------------
(* SpecGet: one caller that reads a key back after each call.               *)

\* A recordToItem that marks every item as version 0.
recordToItem_NoVersion(rec) == [value |-> rec.value, version |-> 0]

\* recordToItem: the value and version of the row.
recordToItem(rec) == [value |-> rec.value, version |-> rec.version]

\* GetMetadata(key) by a caller with no call in progress: a read-only
\* transaction, tx.Get, NotFound or the item of the row. prev is the call
\* the caller finished before.
GetMetadata(c, k) ==
    /\ cl[c].pc \in {"idle", "done"}
    /\ LET r == TxGet(entries, k)
       IN getRes' = IF ~r.ok
                 THEN [key |-> k, res |-> "NotFound", value |-> "none", version |-> 0,
                       prev |-> cl[c]]
                 ELSE [key |-> k, res |-> "OK", value |-> recordToItem(r.rec).value,
                       version |-> recordToItem(r.rec).version, prev |-> cl[c]]
    /\ UNCHANGED <<metaVars, notGet>>

NextGet ==
    \/ MetaNext({"c1"})
    \/ \E k \in MetaKeys : GetMetadata("c1", k)

SpecGet == Init /\ [][NextGet]_vars

----------------------------------------------------------------------------
(* SpecRetry: concurrent writers of one key under every retry budget, the   *)
(* default included; every call in progress keeps running.                  *)

\* NewService: the retry budget for a configured MaxRetries.
NewServiceMaxRetries(cfgMaxRetries) ==
    IF cfgMaxRetries <= 0 THEN DefaultMaxRetries ELSE cfgMaxRetries

InitRetry ==
    /\ entries = [k \in KeyUniverse |-> NoRec]
    /\ etcdKV = [k \in KeyUniverse |-> NoKV]
    /\ etcdRev = 0
    /\ \E cfgMaxRetries \in 0..MaxRetriesCfg : maxRetries = NewServiceMaxRetries(cfgMaxRetries)
    /\ cl = [c \in Clients |-> IdleClient]
    /\ calls = 0
    /\ returned = [k \in KeyUniverse |-> <<>>]
    /\ v0 = 0
    /\ getRes = NoGet
    /\ ListOff /\ WebOff
    /\ RingOff
    /\ FSOff
    /\ UploadOff
    /\ MgrOff

\* The callers write value "a" and skip the revision compare.
NextRetry ==
    \/ \E c \in Clients, k \in MetaKeys :
         \E ev \in ExpVers(k) : PutStart(c, k, "a", ev, -1) /\ UNCHANGED notMeta
    \/ \E c \in Clients, k \in MetaKeys :
         \E ev \in ExpVers(k) : DeleteStart(c, k, ev, -1) /\ UNCHANGED notMeta
    \/ \E c \in Clients : TxBody(c) /\ UNCHANGED notMeta
    \/ \E c \in Clients : TxCommit(c) /\ UNCHANGED notMeta
    \/ \E c \in Clients : EtcdTxn(c) /\ UNCHANGED notMeta

\* The goroutine of a call in progress is scheduled again and again.
FairRetry ==
    \A c \in Clients :
        /\ WF_vars(TxBody(c) /\ UNCHANGED notMeta)
        /\ WF_vars(TxCommit(c) /\ UNCHANGED notMeta)
        /\ WF_vars(EtcdTxn(c) /\ UNCHANGED notMeta)

SpecRetry == InitRetry /\ [][NextRetry]_vars /\ FairRetry

----------------------------------------------------------------------------
(* SpecCAS: two PutMetadata calls on the same existing key, both issued     *)
(* while the key is at version v0 and both expecting v0.                    *)

CASKey == <<1>>

\* The key was written v0 times through PutMetadata: the row is at version v0
\* and the mirror was put v0 times, so its mod revision is v0 as well.
InitCAS ==
    /\ v0 \in 1..MaxInitVer
    /\ getRes = NoGet
    /\ entries = [k \in KeyUniverse |->
                    IF k = CASKey THEN [version |-> v0, value |-> "a"] ELSE NoRec]
    /\ etcdKV = [k \in KeyUniverse |->
                    IF k = CASKey THEN [modRevision |-> v0, value |-> "a", version |-> v0]
                    ELSE NoKV]
    /\ etcdRev = v0
    /\ maxRetries \in 1..MaxRetriesCfg
    /\ cl = [c \in Clients |-> IdleClient]
    /\ calls = 0
    /\ returned = [k \in KeyUniverse |-> IF k = CASKey THEN [i \in 1..v0 |-> i] ELSE <<>>]
    /\ ListOff /\ WebOff
    /\ RingOff
    /\ FSOff
    /\ UploadOff
    /\ MgrOff

\* A caller that read the row at v0 (and the mirror at revision v0) issues its
\* Put; it passes the revision it read or skips the revision compare.
CASIssue(c, val, er) ==
    /\ cl[c].pc = "idle"
    /\ entries[CASKey].version = v0
    /\ PutStart(c, CASKey, val, v0, er)

NextCAS ==
    \/ \E c \in Clients, val \in Values, er \in {-1, v0} :
          CASIssue(c, val, er) /\ UNCHANGED notMeta
    \/ \E c \in Clients : TxBody(c) /\ UNCHANGED notMeta
    \/ \E c \in Clients : TxCommit(c) /\ UNCHANGED notMeta
    \/ \E c \in Clients : EtcdTxn(c) /\ UNCHANGED notMeta

SpecCAS == InitCAS /\ [][NextCAS]_vars

----------------------------------------------------------------------------
(* SpecList: one reader pages through a store nobody writes to.             *)

\* SelectSeq(items, key > startKey)
RECURSIVE KeysAfter(_, _)
KeysAfter(items, startKey) ==
    IF items = <<>> THEN <<>>
    ELSE IF LexLess(startKey, Head(items))
         THEN <<Head(items)>> \o KeysAfter(Tail(items), startKey)
         ELSE KeysAfter(Tail(items), startKey)

\* Service.ListMetadata(prefix, limit, page_token): the keys of the returned
\* items and the next page token (<<>> is the empty token).
ListMetadata(store, prefix, reqLimit, pageToken) ==
    LET limit == IF reqLimit <= 0 THEN DefaultLimit ELSE reqLimit
        listed == TxList(store, prefix, limit + 1)
        items == IF pageToken # <<>> THEN KeysAfter(listed, pageToken) ELSE listed
    IN IF Len(items) > limit
       THEN [items |-> SubSeq(items, 1, limit), next |-> items[limit + 1]]
       ELSE [items |-> items, next |-> <<>>]

\* Any catalogue the service can hold: each key absent or put once.
InitList ==
    /\ entries \in [KeyUniverse -> {NoRec, [version |-> 1, value |-> "a"]}]
    /\ etcdKV = [k \in KeyUniverse |->
                    IF entries[k] = NoRec THEN NoKV
                    ELSE [modRevision |-> 1, value |-> "a", version |-> 1]]
    /\ etcdRev = Cardinality({k \in KeyUniverse : entries[k] # NoRec})
    /\ maxRetries = 1
    /\ cl = [c \in Clients |-> IdleClient]
    /\ calls = 0
    /\ returned = [k \in KeyUniverse |-> IF entries[k] = NoRec THEN <<>> ELSE <<1>>]
    /\ v0 = 0
    /\ getRes = NoGet
    /\ ListOff /\ WebOff
    /\ RingOff
    /\ FSOff
    /\ UploadOff
    /\ MgrOff

\* The reader starts a listing of prefix with page size limit and no token.
ListBegin(prefix, limit) ==
    /\ lst.pc = "off"
    /\ lst' = [ListIdle EXCEPT !.pc = "paging", !.prefix = prefix, !.limit = limit]
    /\ UNCHANGED notList

\* One ListMetadata call with the token of the previous page; the reader
\* stops when the next page token is empty.
ListPage ==
    /\ lst.pc = "paging"
    /\ LET resp == ListMetadata(entries, lst.prefix, lst.limit, lst.token)
       IN lst' = [lst EXCEPT !.out = @ \o resp.items,
                             !.token = resp.next,
                             !.pages = @ + 1,
                             !.pc = IF resp.next = <<>> THEN "done" ELSE "paging"]
    /\ UNCHANGED notList

NextList ==
    \/ \E prefix \in Prefixes, limit \in 0..MaxLimit : ListBegin(prefix, limit)
    \/ ListPage

SpecList == InitList /\ [][NextList]_vars

----------------------------------------------------------------------------
(* chash.Ring *)

RECURSIVE RemoveOne(_, _)
\* seq without the first occurrence of x
RemoveOne(seq, x) ==
    IF seq = <<>> THEN <<>>
    ELSE IF Head(seq) = x THEN Tail(seq)
    ELSE <<Head(seq)>> \o RemoveOne(Tail(seq), x)

SeqRange(seq) == { seq[i] : i \in 1..Len(seq) }

\* sort.Slice(tokens, hash <): the outcomes the sort can produce. sort.Slice
\* is not stable, so tokens of equal hash come out in any order.
RECURSIVE SortSlice(_)
SortSlice(seq) ==
    IF seq = <<>> THEN { <<>> }
    ELSE LET least == { t \in SeqRange(seq) : \A u \in SeqRange(seq) : t.hash <= u.hash }
         IN UNION { { <<t>> \o rest : rest \in SortSlice(RemoveOne(seq, t)) } : t \in least }

\* Ring.AddNode, the appended tokens: one per i in 0..vnodes-1, hash of "<node>#<i>".
NewTokens(h, node) ==
    [i \in 1..VNodes |-> [hash |-> h[<<node, i - 1>>], node |-> node]]

\* Ring.AddNode: the token lists it can leave in the ring.
AddNode(tokens, h, node) ==
    SortSlice(tokens \o NewTokens(h, node))

\* Mutant of RemoveNode: the loop stops after the first token of the node.
RemoveNode_FirstOnly(tokens, node) ==
    LET first == CHOOSE i \in 1..Len(tokens) :
                    tokens[i].node = node /\ \A j \in 1..(i - 1) : tokens[j].node # node
    IN IF node \in { tokens[i].node : i \in 1..Len(tokens) }
       THEN SubSeq(tokens, 1, first - 1) \o SubSeq(tokens, first + 1, Len(tokens))
       ELSE tokens

\* Ring.RemoveNode: the tokens of the other nodes, in their order.
RemoveNode(tokens, node) ==
    SelectSeq(tokens, LAMBDA t : t.node # node)

\* A search that always answers index 0: Lookup then starts at the first token.
Search_Zero(tokens, h) == 0

\* sort.Search(len, tokens[i].hash >= h): the first such index (0-based), len if none.
Search(tokens, h) ==
    IF \E i \in 1..Len(tokens) : tokens[i].hash >= h
    THEN (CHOOSE i \in 1..Len(tokens) :
             /\ tokens[i].hash >= h
             /\ \A j \in 1..(i - 1) : tokens[j].hash < h) - 1
    ELSE Len(tokens)

\* Ring.Lookup, the walk: k tokens visited so far from 0-based index i.
RECURSIVE Walk(_, _, _, _, _)
Walk(tokens, i, k, out, replicas) ==
    IF ~(Len(out) < replicas /\ k < Len(tokens)) THEN out
    ELSE LET n == tokens[((i + k) % Len(tokens)) + 1].node
         IN IF n \in SeqRange(out)
            THEN Walk(tokens, i, k + 1, out, replicas)
            ELSE Walk(tokens, i, k + 1, Append(out, n), replicas)

\* Ring.Lookup(key, replicas) for a key whose hash is h.
Lookup(tokens, h, replicas) ==
    IF replicas <= 0 \/ Len(tokens) = 0 THEN <<>>
    ELSE LET found == Search(tokens, h)
             i == IF found = Len(tokens) THEN 0 ELSE found
         IN Walk(tokens, i, 0, <<>>, replicas)

NodesOf(tokens) == { tokens[i].node : i \in 1..Len(tokens) }

\* A caller adds a node the ring does not hold yet.
RingAddNode(r, node) ==
    /\ node \notin NodesOf(ring[r])
    /\ \E sorted \in AddNode(ring[r], hashOf, node) :
          ring' = [ring EXCEPT ![r] = sorted]
    /\ UNCHANGED <<hashOf, notRing>>

\* A caller removes a node of the ring.
RingRemoveNode(r, node) ==
    /\ node \in NodesOf(ring[r])
    /\ ring' = [ring EXCEPT ![r] = RemoveNode(ring[r], node)]
    /\ UNCHANGED <<hashOf, notRing>>

\* Empty rings; the hash of every token name of the nodes NS is arbitrary
\* (the other nodes are never added).
RingInit(NS) ==
    /\ hashOf \in [TokenNames -> HashSpace]
    /\ \A p \in TokenNames : p[1] \notin NS => hashOf[p] = 0
    /\ ring = [r \in RingIds |-> <<>>]

MetaOff ==
    /\ MetaInit
    /\ maxRetries = 1

RingNext(RS, NS) ==
    \/ \E r \in RS, node \in NS : RingAddNode(r, node)
    \/ \E r \in RS, node \in NS : RingRemoveNode(r, node)

\* One ring over the nodes A, B, C.
InitRing == RingInit(NodeIds) /\ MetaOff /\ ListOff /\ WebOff /\ FSOff /\ UploadOff /\ MgrOff
NextRing == RingNext({1}, NodeIds)
SpecRing == InitRing /\ [][NextRing]_vars

\* Two rings over the nodes A, B, built independently with the same hash.
InitRing2 == RingInit({"A", "B"}) /\ MetaOff /\ ListOff /\ WebOff /\ FSOff /\ UploadOff /\ MgrOff
NextRing2 == RingNext(RingIds, {"A", "B"})
SpecRing2 == InitRing2 /\ [][NextRing2]_vars

----------------------------------------------------------------------------
(* storage.FS *)

\* sha256 of the bytes written, hex encoded: an injective tag of the data.
Sha256(data) == <<"sha256", data>>

\* os.Remove(tmp), whose error Put ignores.
Remove(fs, removeOk) ==
    IF removeOk THEN [fs EXCEPT !.tmp = NoFile] ELSE fs

\* FS.Put(bucket, object, r) on the file system fs, where the step `fault`
\* fails (none: no step fails), a failing copy has written `written` bytes,
\* and os.Remove of the temporary file succeeds or not. The result is the
\* file system afterwards and the returned (n, sum, err).
Put(fs, data, fault, written, removeOk) ==
    IF fault \in {"mkdir", "create"}
    THEN [fs |-> fs, n |-> 0, sum |-> <<>>, err |-> "error"]
    ELSE IF fault = "copy"
    \* `return 0, "", err` returns the err of os.Create, which is nil here
    THEN [fs |-> Remove([fs EXCEPT !.tmp = [exists |-> TRUE,
                                             bytes |-> SubSeq(data, 1, written)]], removeOk),
          n |-> 0, sum |-> <<>>, err |-> "nil"]
    ELSE IF fault \in {"sync", "close", "rename"}
    THEN [fs |-> Remove([fs EXCEPT !.tmp = [exists |-> TRUE, bytes |-> data]], removeOk),
          n |-> 0, sum |-> <<>>, err |-> "error"]
    ELSE [fs |-> [final |-> [exists |-> TRUE, bytes |-> data], tmp |-> NoFile],
          n |-> Len(data), sum |-> Sha256(data), err |-> "nil"]

\* The record of a Put call: its inputs, the final path before it, its result.
PutOutcome(fs, data, fault, res) ==
    [data |-> data, fault |-> fault, before |-> fs.final,
     n |-> res.n, sum |-> res.sum, err |-> res.err]

\* The HTTP blob handler or a test calls FS.Put.
FSPut(data, fault, written, removeOk) ==
    /\ LET res == Put(files, data, fault, written, removeOk)
       IN /\ files' = res.fs
          /\ fsRes' = PutOutcome(files, data, fault, res)
    /\ UNCHANGED notFS

NextFS ==
    \E data \in Payloads, fault \in Faults, removeOk \in BOOLEAN :
        \E written \in 0..Len(data) : FSPut(data, fault, written, removeOk)

InitFS == FSOff /\ MetaOff /\ ListOff /\ WebOff /\ RingOff /\ UploadOff /\ MgrOff
SpecFS == InitFS /\ [][NextFS]_vars

----------------------------------------------------------------------------
(* storage.Service.UploadSegment *)

NodeIndex == [n \in NodeIds |-> IF n = "A" THEN 0 ELSE IF n = "B" THEN 1 ELSE 2]

\* sort.Strings(ids)
RECURSIVE SortIds(_)
SortIds(S) ==
    IF S = {} THEN <<>>
    ELSE LET m == CHOOSE x \in S : \A y \in S : NodeIndex[x] <= NodeIndex[y]
         IN <<m>> \o SortIds(S \ {m})

\* RingManager.rebuildLocked, the ring: a new Ring with every node id added
\* in sorted order (one of the outcomes AddNode can produce).
RECURSIVE BuildRing(_, _, _)
BuildRing(tokens, h, ids) ==
    IF ids = <<>> THEN tokens
    ELSE BuildRing(CHOOSE t \in AddNode(tokens, h, Head(ids)) : TRUE, h, Tail(ids))

\* A hash without collisions: "<node>#<i>" hashes to i * |nodes| + index of node.
UploadHash == [p \in TokenNames |-> p[2] * Cardinality(NodeIds) + NodeIndex[p[1]]]
UploadKeyHashes == 0..(Cardinality(TokenNames) - 1)

\* A validation that accepts every replica set.
ValidateReplicationTargets_AcceptAll(targets, primary) == "OK"

\* ValidateReplicationTargets(targets, primary)
ValidateReplicationTargets(targets, primary) ==
    IF Len(targets) = 0 THEN "Empty"
    ELSE IF \E i \in 1..Len(targets) : targets[i] = primary THEN "OK"
    ELSE "MissingPrimary"

\* A merge that never reports an error.
MergeReplicationErrors_Nil(results) == "nil"

\* MergeReplicationErrors(results): nil unless some entry holds an error.
MergeReplicationErrors(results) ==
    IF \E t \in DOMAIN results : results[t] = "error" THEN "error" ELSE "nil"

\* The permutations of a finite set, as sequences (Go's map iteration order).
RECURSIVE Perms(_)
Perms(S) ==
    IF S = {} THEN { <<>> }
    ELSE UNION { { <<x>> \o rest : rest \in Perms(S \ {x}) } : x \in S }

\* The call ends with an error before any response is built.
Fail(u, err) == [u EXCEPT !.pc = "done", !.err = err]

\* UploadSegment up to fs.Put: the header is received and checked, the chunks
\* are buffered, and the payload is written to the local file system.
UploadPersist(hdrOk, data, s3, fault, written, removeOk) ==
    /\ up.pc \in {"idle", "done"}
    /\ uploads < MaxUploads
    /\ uploads' = uploads + 1
    /\ IF ~hdrOk
       THEN /\ up' = Fail(IdleUpload, "InvalidArgument")
            /\ UNCHANGED <<files, fsRes>>
       ELSE LET res == Put(files, data, fault, written, removeOk)
            IN /\ files' = res.fs
               /\ fsRes' = PutOutcome(files, data, fault, res)
               /\ up' = IF res.err # "nil"
                        THEN Fail([IdleUpload EXCEPT !.data = data, !.s3 = s3], "Storage")
                        ELSE [IdleUpload EXCEPT !.pc = "persisted", !.data = data, !.s3 = s3,
                                                !.localOK = (fault = "none"),
                                                !.size = res.n, !.checksum = res.sum,
                                                !.results = [@ EXCEPT ![Self] = "nil"]]
    /\ UNCHANGED <<upCfg, segRecords, notUpload>>

\* A fan-out that spawns a replication task for every target, self included.
UploadFanout_All(h) ==
    /\ up.pc = "persisted"
    /\ LET found == Lookup(ring[1], h, upCfg.replicationFactor)
           targets == IF Len(found) = 0 THEN <<Self>> ELSE found
       IN up' = [up EXCEPT !.pc = "wait", !.targets = targets,
                           !.pending = SeqRange(targets) \cup (IF up.s3 THEN {"s3"} ELSE {})]
    /\ UNCHANGED <<files, fsRes, upCfg, uploads, segRecords, notUpload>>

\* Mutant of UploadFanout: an empty Lookup result is not replaced by [self].
UploadFanout_NoFallback(h) ==
    /\ up.pc = "persisted"
    /\ LET targets == Lookup(ring[1], h, upCfg.replicationFactor)
           valid == ValidateReplicationTargets(targets, Self)
       IN up' = IF valid # "OK"
                THEN Fail([up EXCEPT !.targets = targets], valid)
                ELSE [up EXCEPT !.pc = "wait", !.targets = targets,
                                !.pending = (SeqRange(targets) \ {Self})
                                            \cup (IF up.s3 THEN {"s3"} ELSE {})]
    /\ UNCHANGED <<files, fsRes, upCfg, uploads, segRecords, notUpload>>

\* The replica set is looked up and validated, and one task per peer (and
\* one for the cold tier) is spawned.
UploadFanout(h) ==
    /\ up.pc = "persisted"
    /\ LET found == Lookup(ring[1], h, upCfg.replicationFactor)
           targets == IF Len(found) = 0 THEN <<Self>> ELSE found
           valid == ValidateReplicationTargets(targets, Self)
       IN up' = IF valid # "OK"
                THEN Fail([up EXCEPT !.targets = targets], valid)
                ELSE [up EXCEPT !.pc = "wait", !.targets = targets,
                                !.pending = (SeqRange(targets) \ {Self})
                                            \cup (IF up.s3 THEN {"s3"} ELSE {})]
    /\ UNCHANGED <<files, fsRes, upCfg, uploads, segRecords, notUpload>>

\* A spawned task runs: transport.ReplicateSegment to a peer, or the upload
\* to the cold tier; it records its result under the mutex.
UploadTask(t, ok) ==
    /\ up.pc = "wait"
    /\ t \in up.pending
    /\ up' = [up EXCEPT !.pending = @ \ {t},
                        !.results = [@ EXCEPT ![t] = IF ok THEN "nil" ELSE "error"],
                        !.rpcs = IF t \in NodeIds THEN @ \cup {t} ELSE @]
    /\ UNCHANGED <<files, fsRes, upCfg, uploads, segRecords, notUpload>>

\* SegmentRecord.Replicas: the peers of targets, in order, whose result is nil,
\* then the cold-tier key if that upload succeeded.
RecordReplicas(targets, results, s3) ==
    SelectSeq(targets, LAMBDA n : n # Self /\ results[n] = "nil")
        \o (IF s3 /\ results["s3"] = "nil" THEN <<"s3">> ELSE <<>>)

\* After wg.Wait: the acks are collected (in map order), the errors merged,
\* the SegmentRecord written when a metadata store is configured and the
\* merged error is nil, and the response sent.
UploadFinish(order, putOk) ==
    /\ up.pc = "wait"
    /\ up.pending = {}
    /\ order \in Perms({t \in TaskNames : up.results[t] # "none" /\ t # Self})
    /\ LET acks == [i \in 1..Len(order) |->
                       [node |-> order[i], success |-> up.results[order[i]] = "nil"]]
           agg == MergeReplicationErrors(up.results)
           record == [written |-> TRUE, primary |-> Self,
                      replicas |-> RecordReplicas(up.targets, up.results, up.s3),
                      checksum |-> up.checksum, size |-> up.size]
           metaAck == IF ~upCfg.hasMetadata THEN <<>>
                      ELSE <<[node |-> "metadata", success |-> agg = "nil" /\ putOk]>>
           replAck == IF agg # "nil" THEN <<[node |-> "replication", success |-> FALSE]>>
                      ELSE <<>>
       IN /\ up' = [up EXCEPT !.pc = "done", !.agg = agg, !.err = "nil",
                              !.status = <<[node |-> Self, success |-> TRUE]>>
                                         \o acks \o metaAck \o replAck,
                              !.record = IF upCfg.hasMetadata /\ agg = "nil"
                                         THEN record ELSE NoRecord]
          /\ segRecords' = IF upCfg.hasMetadata /\ agg = "nil" /\ putOk
                           THEN record ELSE segRecords
    /\ UNCHANGED <<files, fsRes, upCfg, uploads, notUpload>>

\* A service on node A with any replication factor, with or without a
\* metadata store, over the ring of any set of nodes.
InitUpload ==
    /\ FSOff
    /\ upCfg \in [replicationFactor : 1..Cardinality(NodeIds), hasMetadata : BOOLEAN]
    /\ up = IdleUpload
    /\ uploads = 0
    /\ segRecords = NoRecord
    /\ hashOf = UploadHash
    /\ \E NS \in SUBSET NodeIds :
          ring = [r \in RingIds |-> IF r = 1 THEN BuildRing(<<>>, UploadHash, SortIds(NS))
                                             ELSE <<>>]
    /\ MetaOff
    /\ ListOff /\ WebOff
    /\ MgrOff

NextUpload ==
    \/ \E hdrOk \in BOOLEAN, data \in Payloads, s3 \in BOOLEAN, fault \in Faults,
          removeOk \in BOOLEAN :
          \E written \in 0..Len(data) : UploadPersist(hdrOk, data, s3, fault, written, removeOk)
    \/ \E h \in UploadKeyHashes : UploadFanout(h)
    \/ \E t \in TaskNames, ok \in BOOLEAN : UploadTask(t, ok)
    \/ \E order \in UNION { Perms(S) : S \in SUBSET (TaskNames \ {Self}) }, putOk \in BOOLEAN :
          UploadFinish(order, putOk)

SpecUpload == InitUpload /\ [][NextUpload]_vars

----------------------------------------------------------------------------
(* storage.RingManager, its Watch, and storage.Rebalancer *)

\* Ring.Tokens(): the tokens of the ring in ring order.
RingTokens(tokens) == tokens

\* The ids compared the wrong way round.
IdLess_Reversed(a, b) ==
    \/ NodeIndex[b[1]] < NodeIndex[a[1]]
    \/ a[1] = b[1] /\ b[2] < a[2]

\* fmt.Sprintf("%s#%d", node, idx) compared as strings.
IdLess(a, b) ==
    \/ NodeIndex[a[1]] < NodeIndex[b[1]]
    \/ a[1] = b[1] /\ a[2] < b[2]

\* sort.Slice(assignments, by Token then ID): the order is total.
RECURSIVE SortAssignments(_)
SortAssignments(S) ==
    IF S = {} THEN <<>>
    ELSE LET least == CHOOSE a \in S : \A b \in S :
                          a = b \/ a.token < b.token \/ (a.token = b.token /\ IdLess(a.id, b.id))
         IN <<least>> \o SortAssignments(S \ {least})

\* RingManager.rebuildLocked: the assignments of the node set. The i-th token
\* of the ring gets the id "<node>#<idx>", idx counting the node's earlier tokens.
Rebuild(nodes) ==
    LET tokens == RingTokens(BuildRing(<<>>, hashOf, SortIds(nodes)))
        idx(i) == Cardinality({ j \in 1..(i - 1) : tokens[j].node = tokens[i].node })
    IN SortAssignments({ [id |-> <<tokens[i].node, idx(i)>>,
                          token |-> tokens[i].hash,
                          node |-> tokens[i].node] : i \in 1..Len(tokens) })

\* notifyWatchersLocked: the event is sent on every subscription whose channel
\* has room, and dropped for the others (select with default).
NotifyWatchers(chans, evt) ==
    [w \in Mgrs |-> IF watching[w] /\ Len(chans[w]) < WatchBuffer
                    THEN Append(chans[w], evt) ELSE chans[w]]

\* The tail of UpsertNode/RemoveNode once m.state.Nodes is changed:
\* rebuildLocked, then persistLocked, which increments the version, and then
\* writes the state to the store. putOk: whether etcd.Put returns without error.
PersistLocked(m, op, nodes, putOk) ==
    LET mutated == [version |-> mgr[m].version + 1, nodes |-> nodes, tokens |-> Rebuild(nodes)]
    IN /\ mgr' = [mgr EXCEPT ![m] = mutated]
       /\ IF putOk
          THEN /\ ringStore' = [present |-> TRUE, state |-> mutated]
               /\ watchCh' = NotifyWatchers(watchCh, mutated)
               /\ persisted' = Append(persisted, mutated)
          ELSE UNCHANGED <<ringStore, watchCh, persisted>>
       /\ mgrRes' = [mgrRes EXCEPT ![m] =
                        [op |-> op, err |-> IF putOk THEN "nil" ELSE "error",
                         version |-> IF putOk THEN mutated.version ELSE 0]]

\* Mutant of UpsertNode: a node that is already registered is answered with
\* the current version, without rebuild and persist.
UpsertNode_SkipLive(m, node, putOk, maxCalls) ==
    /\ mgrCalls < maxCalls
    /\ mgrCalls' = mgrCalls + 1
    /\ IF node \in mgr[m].nodes
       THEN /\ mgrRes' = [mgrRes EXCEPT ![m] = [op |-> "UpsertNode", err |-> "nil",
                                                version |-> mgr[m].version]]
            /\ UNCHANGED <<mgr, ringStore, watchCh, persisted>>
       ELSE PersistLocked(m, "UpsertNode", mgr[m].nodes \cup {node}, putOk)
    /\ UNCHANGED <<watching, held, events, reb, started, mgrCtl, notMgr>>

\* RingManager.UpsertNode(node), under m.mu.
UpsertNode(m, node, putOk, maxCalls) ==
    /\ mgrCalls < maxCalls
    /\ mgrCalls' = mgrCalls + 1
    /\ PersistLocked(m, "UpsertNode", mgr[m].nodes \cup {node}, putOk)
    /\ UNCHANGED <<watching, held, events, reb, started, mgrCtl, notMgr>>

\* A RemoveNode that rebuilds and persists whether or not the id is registered.
MgrRemoveNode_Always(m, node, putOk, maxCalls) ==
    /\ mgrCalls < maxCalls
    /\ mgrCalls' = mgrCalls + 1
    /\ PersistLocked(m, "RemoveNode", mgr[m].nodes \ {node}, putOk)
    /\ UNCHANGED <<watching, held, events, reb, started, mgrCtl, notMgr>>

\* RingManager.RemoveNode(nodeID), under m.mu: nothing happens for an id that
\* is not registered.
MgrRemoveNode(m, node, putOk, maxCalls) ==
    /\ mgrCalls < maxCalls
    /\ mgrCalls' = mgrCalls + 1
    /\ IF node \notin mgr[m].nodes
       THEN /\ mgrRes' = [mgrRes EXCEPT ![m] =
                             [op |-> "RemoveNode", err |-> "nil", version |-> mgr[m].version]]
            /\ UNCHANGED <<ringStore, mgr, watchCh, persisted>>
       ELSE PersistLocked(m, "RemoveNode", mgr[m].nodes \ {node}, putOk)
    /\ UNCHANGED <<watching, held, events, reb, started, mgrCtl, notMgr>>

\* An event of a subscription channel is a put of the ring key, carried as the
\* ring state it encodes, or another event under the prefix: a delete of the
\* ring key, or a put of another key.
OtherEvents == { [type |-> "put", key |-> "other"], [type |-> "delete", key |-> "ring"] }
IsRingPut(evt) == evt \notin OtherEvents

\* The Watch goroutine of m has been started and has not returned.
Running(m) == (watching[m] \/ ctx[m].done) /\ ~ctx[m].eventsClosed

\* A goroutine that forwards the event without applying the state.
WatchApply_NoApply(m) ==
    /\ Running(m)
    /\ held[m] = NoEvent
    /\ watchCh[m] # <<>>
    /\ IsRingPut(Head(watchCh[m]))
    /\ held' = [held EXCEPT ![m] = [version |-> Head(watchCh[m]).version,
                                    assignments |-> Head(watchCh[m]).tokens]]
    /\ watchCh' = [watchCh EXCEPT ![m] = Tail(@)]
    /\ UNCHANGED <<ringStore, mgr, watching, events, reb, started, persisted, mgrCalls, mgrRes,
                   mgrCtl, notMgr>>

\* The Watch goroutine receives a put event of the ring key, decodes it and
\* applies it (applyState: m.state = state, rebuildLocked).
WatchApply(m) ==
    /\ Running(m)
    /\ held[m] = NoEvent
    /\ watchCh[m] # <<>>
    /\ IsRingPut(Head(watchCh[m]))
    /\ LET state == Head(watchCh[m])
       IN /\ mgr' = [mgr EXCEPT ![m] = [state EXCEPT !.tokens = Rebuild(state.nodes)]]
          /\ held' = [held EXCEPT ![m] = [version |-> state.version,
                                          assignments |-> state.tokens]]
    /\ watchCh' = [watchCh EXCEPT ![m] = Tail(@)]
    /\ UNCHANGED <<ringStore, watching, events, reb, started, persisted, mgrCalls, mgrRes, mgrCtl, notMgr>>

\* The Watch goroutine sends the RingEvent once the events channel has room.
WatchEmit(m) ==
    /\ held[m] # NoEvent
    /\ Len(events[m]) < EventBuffer
    /\ events' = [events EXCEPT ![m] = Append(@, held[m])]
    /\ held' = [held EXCEPT ![m] = NoEvent]
    /\ UNCHANGED <<ringStore, mgr, watching, watchCh, reb, started, persisted, mgrCalls, mgrRes, mgrCtl, notMgr>>

\* The manager the Rebalancer runs on.
RebMgr == "m1"

\* Mutant of RebExecute: Run hands every event it receives to a new goroutine,
\* so a plan starts while the previous ExecutePlan has not returned.
RebExecute_Spawn ==
    /\ reb.pc \in {"idle", "executing"}
    /\ events[RebMgr] # <<>>
    /\ reb' = [pc |-> "executing", plan |-> Head(events[RebMgr])]
    /\ started' = Append(started, Head(events[RebMgr]))
    /\ events' = [events EXCEPT ![RebMgr] = Tail(@)]
    /\ UNCHANGED <<ringStore, mgr, watching, watchCh, held, persisted, mgrCalls, mgrRes, mgrCtl, notMgr>>

\* Rebalancer.Run receives an event, builds the plan and calls ExecutePlan.
RebExecute ==
    /\ reb.pc = "idle"
    /\ events[RebMgr] # <<>>
    /\ reb' = [pc |-> "executing", plan |-> Head(events[RebMgr])]
    /\ started' = Append(started, Head(events[RebMgr]))
    /\ events' = [events EXCEPT ![RebMgr] = Tail(@)]
    /\ UNCHANGED <<ringStore, mgr, watching, watchCh, held, persisted, mgrCalls, mgrRes, mgrCtl, notMgr>>

\* A Run that goes on with the next event whatever ExecutePlan returned.
RebReturn_Continue(ok) ==
    /\ reb.pc = "executing"
    /\ reb' = [pc |-> "idle", plan |-> NoEvent]
    /\ UNCHANGED <<ringStore, mgr, watching, watchCh, held, events, started, persisted,
                   mgrCalls, mgrRes, mgrCtl, notMgr>>

\* ExecutePlan returns: Run goes on with the next event, or returns the error.
RebReturn(ok) ==
    /\ reb.pc = "executing"
    /\ executorNil => ok
    /\ reb' = [pc |-> IF ok THEN "idle" ELSE "stopped", plan |-> NoEvent]
    /\ UNCHANGED <<ringStore, mgr, watching, watchCh, held, events, started, persisted,
                   mgrCalls, mgrRes, mgrCtl, notMgr>>

\* The manager's rings hash without collisions; no free-standing ring is built.
MgrRing ==
    /\ hashOf = UploadHash
    /\ ring = [r \in RingIds |-> <<>>]

\* Managers on an empty store; those of W have called Watch.
MgrInit(W) ==
    /\ ringStore = NoStore
    /\ mgr = [m \in Mgrs |-> EmptyState]
    /\ watching = [m \in Mgrs |-> m \in W]
    /\ watchCh = [m \in Mgrs |-> <<>>]
    /\ held = [m \in Mgrs |-> NoEvent]
    /\ events = [m \in Mgrs |-> <<>>]
    /\ reb = IdleRebalancer
    /\ started = <<>>
    /\ persisted = <<>>
    /\ mgrCalls = 0
    /\ mgrRes = [m \in Mgrs |-> NoCall]
    /\ ctx = [m \in Mgrs |-> LiveCtx]

\* Two managers over the nodes A and B; any of them watches; the Rebalancer
\* runs on m1; a store write may fail.
MgrNodes == { "A", "B" }
InitManager ==
    /\ \E W \in SUBSET Mgrs : RebMgr \in W /\ MgrInit(W)
    /\ executorNil = FALSE
    /\ MetaOff /\ ListOff /\ WebOff /\ MgrRing /\ FSOff /\ UploadOff

NextManager ==
    \/ \E m \in Mgrs, node \in MgrNodes, putOk \in BOOLEAN : UpsertNode(m, node, putOk, MaxMgrCalls)
    \/ \E m \in Mgrs, node \in MgrNodes, putOk \in BOOLEAN : MgrRemoveNode(m, node, putOk, MaxMgrCalls)
    \/ \E m \in Mgrs : WatchApply(m)
    \/ \E m \in Mgrs : WatchEmit(m)
    \/ RebExecute
    \/ \E ok \in BOOLEAN : RebReturn(ok)

SpecManager == InitManager /\ [][NextManager]_vars

\* One manager with a running Rebalancer; node A sends heartbeats.
InitRebalance ==
    /\ MgrInit({RebMgr})
    /\ executorNil = FALSE
    /\ MetaOff /\ ListOff /\ WebOff /\ MgrRing /\ FSOff /\ UploadOff

NextRebalance ==
    \/ UpsertNode(RebMgr, "A", TRUE, MaxRebalanceCalls)
    \/ WatchApply(RebMgr)
    \/ WatchEmit(RebMgr)
    \/ RebExecute
    \/ \E ok \in BOOLEAN : RebReturn(ok)

SpecRebalance == InitRebalance /\ [][NextRebalance]_vars

\* Two managers on one store, both watching: m1 registers node A, if it
\* does as the first update, and m2 sends heartbeats of node B, in any
\* interleaving with the two Watch goroutines.
InitConverge ==
    /\ MgrInit(Mgrs)
    /\ executorNil = FALSE
    /\ MetaOff /\ ListOff /\ WebOff /\ MgrRing /\ FSOff /\ UploadOff

NextConverge ==
    \/ UpsertNode("m1", "A", TRUE, 1)
    \/ UpsertNode("m2", "B", TRUE, MaxConvergeCalls)
    \/ \E m \in Mgrs : WatchApply(m)
    \/ \E m \in Mgrs : WatchEmit(m)

SpecConverge == InitConverge /\ [][NextConverge]_vars

\* Mutant of MgrBootstrap: the constructor never reads the ring key.
MgrBootstrap_Fresh(m, maxCalls) ==
    /\ mgrCalls < maxCalls
    /\ mgrCalls' = mgrCalls + 1
    /\ mgr' = [mgr EXCEPT ![m] = EmptyState]
    /\ watching' = [watching EXCEPT ![m] = FALSE]
    /\ watchCh' = [watchCh EXCEPT ![m] = <<>>]
    /\ held' = [held EXCEPT ![m] = NoEvent]
    /\ events' = [events EXCEPT ![m] = <<>>]
    /\ mgrRes' = [mgrRes EXCEPT ![m] = NoCall]
    /\ UNCHANGED <<ringStore, reb, started, persisted, mgrCtl, notMgr>>

\* NewRingManager in a restarted process of manager m: bootstrap reads the
\* ring key and rebuilds; the Watch of the old process is gone.
MgrBootstrap(m, maxCalls) ==
    /\ mgrCalls < maxCalls
    /\ mgrCalls' = mgrCalls + 1
    /\ mgr' = [mgr EXCEPT ![m] =
                  IF ringStore.present
                  THEN [ringStore.state EXCEPT !.tokens = Rebuild(ringStore.state.nodes)]
                  ELSE EmptyState]
    /\ watching' = [watching EXCEPT ![m] = FALSE]
    /\ watchCh' = [watchCh EXCEPT ![m] = <<>>]
    /\ held' = [held EXCEPT ![m] = NoEvent]
    /\ events' = [events EXCEPT ![m] = <<>>]
    /\ mgrRes' = [mgrRes EXCEPT ![m] = NoCall]
    /\ UNCHANGED <<ringStore, reb, started, persisted, mgrCtl, notMgr>>

\* RingManager.Watch is called: the subscription is registered with an empty
\* channel and the goroutine started.
WatchStart(m) ==
    /\ ~watching[m]
    /\ watching' = [watching EXCEPT ![m] = TRUE]
    /\ UNCHANGED <<ringStore, mgr, watchCh, held, events, reb, started, persisted,
                   mgrCalls, mgrRes, mgrCtl, notMgr>>

\* Another client of the store commits a transaction on a key under the
\* manager's prefix: a put of another key, or a delete of the ring key, which
\* makes an event only when the key exists.
EtcdOther(evt, maxCalls) ==
    /\ mgrCalls < maxCalls
    /\ mgrCalls' = mgrCalls + 1
    /\ evt.key = "ring" => ringStore.present
    /\ ringStore' = IF evt.key = "ring" THEN NoStore ELSE ringStore
    /\ watchCh' = NotifyWatchers(watchCh, evt)
    /\ UNCHANGED <<mgr, watching, held, events, reb, started, persisted, mgrRes, mgrCtl, notMgr>>

\* The Watch goroutine receives an event that is not a put of the ring key
\* and goes on with the next one.
WatchSkip(m) ==
    /\ Running(m)
    /\ held[m] = NoEvent
    /\ watchCh[m] # <<>>
    /\ ~IsRingPut(Head(watchCh[m]))
    /\ watchCh' = [watchCh EXCEPT ![m] = Tail(@)]
    /\ UNCHANGED <<ringStore, mgr, watching, held, events, reb, started, persisted,
                   mgrCalls, mgrRes, mgrCtl, notMgr>>

\* The caller of Watch cancels the context.
WatchCancel(m) ==
    /\ watching[m]
    /\ ~ctx[m].done
    /\ ctx' = [ctx EXCEPT ![m].done = TRUE]
    /\ UNCHANGED <<ringStore, mgr, watching, watchCh, held, events, reb, started, persisted,
                   mgrCalls, mgrRes, executorNil, notMgr>>

\* Mutant of EtcdUnwatch: the goroutine closes the channel first and leaves
\* the subscription in the registry.
EtcdUnwatch_CloseFirst(m) ==
    /\ ctx[m].done
    /\ watching[m]
    /\ ~ctx[m].chClosed
    /\ ctx' = [ctx EXCEPT ![m].chClosed = TRUE]
    /\ UNCHANGED <<ringStore, mgr, watching, watchCh, held, events, reb, started, persisted,
                   mgrCalls, mgrRes, executorNil, notMgr>>

\* etcdsim Client.Watch, its goroutine: once the context is done it calls
\* removeWatcher, which deletes the subscription under the client mutex.
EtcdUnwatch(m) ==
    /\ ctx[m].done
    /\ watching[m]
    /\ watching' = [watching EXCEPT ![m] = FALSE]
    /\ UNCHANGED <<ringStore, mgr, watchCh, held, events, reb, started, persisted,
                   mgrCalls, mgrRes, mgrCtl, notMgr>>

\* The same goroutine, after removeWatcher returned: close(ch). A context is
\* done only after Watch was called, so a subscription that is not registered
\* then is one the goroutine has removed.
EtcdClose(m) ==
    /\ ctx[m].done
    /\ ~watching[m]
    /\ ~ctx[m].chClosed
    /\ ctx' = [ctx EXCEPT ![m].chClosed = TRUE]
    /\ UNCHANGED <<ringStore, mgr, watching, watchCh, held, events, reb, started, persisted,
                   mgrCalls, mgrRes, executorNil, notMgr>>

\* A goroutine that returns without closing the events channel.
WatchReturn_NoClose(m) ==
    /\ Running(m)
    /\ ctx[m].done
    /\ held' = [held EXCEPT ![m] = NoEvent]
    /\ UNCHANGED <<ringStore, mgr, watching, watchCh, events, reb, started, persisted,
                   mgrCalls, mgrRes, mgrCtl, notMgr>>

\* The Watch goroutine returns and closes the events channel: at the outer
\* select when the context is done or the subscription channel is closed and
\* drained, at the send when the context is done. An event applied and not
\* yet sent is dropped.
WatchReturn(m) ==
    /\ Running(m)
    /\ IF held[m] = NoEvent
       THEN ctx[m].done \/ (watchCh[m] = <<>> /\ ctx[m].chClosed)
       ELSE ctx[m].done
    /\ ctx' = [ctx EXCEPT ![m].eventsClosed = TRUE]
    /\ held' = [held EXCEPT ![m] = NoEvent]
    /\ UNCHANGED <<ringStore, mgr, watching, watchCh, events, reb, started, persisted,
                   mgrCalls, mgrRes, executorNil, notMgr>>

\* Rebalancer.Run returns nil: its context is done, or the events channel is
\* closed and drained.
RebExit ==
    /\ reb.pc = "idle"
    /\ ctx[RebMgr].done \/ (events[RebMgr] = <<>> /\ ctx[RebMgr].eventsClosed)
    /\ reb' = [pc |-> "returned", plan |-> NoEvent]
    /\ UNCHANGED <<ringStore, mgr, watching, watchCh, held, events, started, persisted,
                   mgrCalls, mgrRes, mgrCtl, notMgr>>

\* A Rebalancer, with or without an executor, runs on manager m1; m1 sends
\* heartbeats of node A and m2 of node B, and other clients write under the
\* prefix; the context of the Rebalancer is cancelled at any time.
InitWatch ==
    /\ MgrInit({RebMgr})
    /\ executorNil \in BOOLEAN
    /\ MetaOff /\ ListOff /\ WebOff /\ MgrRing /\ FSOff /\ UploadOff

NextWatch ==
    \/ UpsertNode("m1", "A", TRUE, MaxWatchCalls)
    \/ UpsertNode("m2", "B", TRUE, MaxWatchCalls)
    \/ \E evt \in OtherEvents : EtcdOther(evt, MaxWatchCalls)
    \/ WatchApply(RebMgr)
    \/ WatchSkip(RebMgr)
    \/ WatchEmit(RebMgr)
    \/ WatchCancel(RebMgr)
    \/ EtcdUnwatch(RebMgr)
    \/ EtcdClose(RebMgr)
    \/ WatchReturn(RebMgr)
    \/ RebExecute
    \/ \E ok \in BOOLEAN : RebReturn(ok)
    \/ RebExit

\* The goroutines run: a select whose ctx.Done case stays ready eventually
\* takes it (the Watch goroutine of the manager, Rebalancer.Run), the
\* goroutine of the store's subscription wakes up once the context is done,
\* and the executor returns.
FairWatch ==
    /\ WF_vars(WatchReturn(RebMgr))
    /\ WF_vars(EtcdUnwatch(RebMgr))
    /\ WF_vars(EtcdClose(RebMgr))
    /\ WF_vars(RebExit)
    /\ WF_vars(RebReturn(TRUE))

SpecWatch == InitWatch /\ [][NextWatch]_vars /\ FairWatch

\* Hashes of the token names: without collisions, all colliding, and the
\* i-th tokens of all nodes colliding.
TokenHashings ==
    { UploadHash, [p \in TokenNames |-> 0], [p \in TokenNames |-> p[2]] }

\* Two managers over the nodes A and B, under each of these hashes; managers
\* restart and call Watch at any time.
InitTokens ==
    /\ hashOf \in TokenHashings
    /\ ring = [r \in RingIds |-> <<>>]
    /\ MgrInit({})
    /\ executorNil = FALSE
    /\ MetaOff /\ ListOff /\ WebOff /\ FSOff /\ UploadOff

NextTokens ==
    \/ \E m \in Mgrs, node \in MgrNodes, putOk \in BOOLEAN : UpsertNode(m, node, putOk, MaxTokenCalls)
    \/ \E m \in Mgrs, node \in MgrNodes, putOk \in BOOLEAN : MgrRemoveNode(m, node, putOk, MaxTokenCalls)
    \/ \E m \in Mgrs : MgrBootstrap(m, MaxTokenCalls)
    \/ \E m \in Mgrs : WatchStart(m)
    \/ \E m \in Mgrs : WatchApply(m)
    \/ \E m \in Mgrs : WatchEmit(m)

SpecTokens == InitTokens /\ [][NextTokens]_vars

----------------------------------------------------------------------------
(* The web front end: the /upload handler, and the /blob/ handler of a      *)
(* storage node it PUTs to.                                                 *)

\* The base URLs of the storage nodes and the replica lists of a segment.
Bases == { "s1", "s2" }
ReplicaLists == UNION { [1..n -> Bases] : n \in 0..MaxReplicas }

\* What can go wrong with one blob PUT: a step of FS.Put on the node fails,
\* or the request gets no response (connection error, 8 s timeout).
PutFaults == Faults \cup { "transport" }

\* main: writeW is UPLOAD_W when that is a positive integer, else 1.
UploadW(env) == IF env > 0 THEN env ELSE 1

\* The /blob/ PUT handler as the front end sees it: 201 when store.Put
\* returns no error, 500 when it does; 0 stands for no response.
BlobPut(fault) ==
    IF fault = "transport" THEN 0
    ELSE IF Put([final |-> NoFile, tmp |-> NoFile], <<>>, fault, 0, TRUE).err # "nil" THEN 500
    ELSE 201

\* An answer that succeeds as soon as one replica acknowledged.
UploadStatus_Any(success, W) == IF success >= 1 THEN 201 ELSE 502

\* The /upload handler, its answer after the PUTs.
UploadStatus(success, W) == IF success >= W THEN 201 ELSE 502

\* The /upload handler up to the PUTs: the method and the query are checked,
\* the metadata service is asked for the replicas, the body is read.
WebUpload(kind, replicas) ==
    /\ web.pc \in {"idle", "done"}
    /\ web' = IF kind = "method" THEN [IdleWeb EXCEPT !.pc = "done", !.W = web.W, !.status = 405]
              ELSE IF kind = "query" THEN [IdleWeb EXCEPT !.pc = "done", !.W = web.W, !.status = 400]
              ELSE IF kind \in {"metadata", "body"} \/ Len(replicas) = 0
              THEN [IdleWeb EXCEPT !.pc = "done", !.W = web.W, !.status = 503]
              ELSE [IdleWeb EXCEPT !.pc = "put", !.W = web.W, !.replicas = replicas]
    /\ UNCHANGED notWeb

\* One turn of the loop over loc.Replicas: the PUT to the next replica.
WebPut(fault) ==
    /\ web.pc = "put"
    /\ Len(web.results) < Len(web.replicas)
    /\ LET base == web.replicas[Len(web.results) + 1]
           status == BlobPut(fault)
       IN web' = [web EXCEPT !.results = Append(@, [base |-> base, status |-> status]),
                             !.success = IF status = 201 THEN @ + 1 ELSE @]
    /\ UNCHANGED notWeb

\* After the loop the handler answers.
WebRespond ==
    /\ web.pc = "put"
    /\ Len(web.results) = Len(web.replicas)
    /\ web' = [web EXCEPT !.pc = "done", !.status = UploadStatus(web.success, web.W)]
    /\ UNCHANGED notWeb

InitWeb ==
    /\ \E env \in 0..MaxW : web = [IdleWeb EXCEPT !.W = UploadW(env)]
    /\ MetaOff /\ ListOff /\ RingOff /\ FSOff /\ UploadOff /\ MgrOff

NextWeb ==
    \/ \E kind \in {"ok", "method", "query", "metadata", "body"}, replicas \in ReplicaLists :
          WebUpload(kind, replicas)
    \/ \E fault \in PutFaults : WebPut(fault)
    \/ WebRespond

SpecWeb == InitWeb /\ [][NextWeb]_vars

----------------------------------------------------------------------------
(* Claims *)

\* C1: for any key, the versions returned by the successful PutMetadata calls
\* on it, in completion order, are 1, 2, 3, ... without gap or repeat. Stated
\* for callers that run one after the other (SpecSeq).
C1_VersionsGapFree ==
    \A k \in MetaKeys : \A i \in 1..Len(returned[k]) : returned[k][i] = i

BothDone == \A c \in Clients : cl[c].pc = "done"

\* C2 as claimed: once both concurrent Puts expecting v0 have returned, exactly
\* one succeeded with version v0 + 1, the other returned VersionMismatch, and
\* the row is at version v0 + 1.
C2_ExactlyOneElseMismatch ==
    BothDone =>
        /\ entries[CASKey].version = v0 + 1
        /\ \E w \in Clients :
              /\ cl[w].res = "OK" /\ cl[w].resVer = v0 + 1
              /\ \A o \in Clients \ {w} : cl[o].res = "VersionMismatch"

\* C2 amended: the call that lost returns VersionMismatch, or the serialisation
\* error when the retry budget is a single attempt (maxRetries = 1) and it lost
\* the race at commit.
C2_ExactlyOneSucceeds ==
    BothDone =>
        /\ entries[CASKey].version = v0 + 1
        /\ \E w \in Clients :
              /\ cl[w].res = "OK" /\ cl[w].resVer = v0 + 1
              /\ \A o \in Clients \ {w} :
                    \/ cl[o].res = "VersionMismatch"
                    \/ cl[o].res = "Serialization" /\ maxRetries = 1

\* C2 witness: both calls returned and the loser had read the row before the
\* winner committed, retried after the serialisation failure and then saw the
\* new version.
C2_Witness ==
    /\ BothDone
    /\ \E w, o \in Clients :
          cl[w].res = "OK" /\ cl[o].res = "VersionMismatch" /\ cl[o].attempt = 1

AllMatching(prefix) ==
    SortKeys({k \in KeyUniverse : entries[k] # NoRec /\ hasPrefix(k, prefix)})

\* C3: with no concurrent writes, following next_page_token until it is empty
\* returns every committed key with the prefix exactly once, in ascending order.
C3_PagingComplete ==
    lst.pc = "done" => lst.out = AllMatching(lst.prefix)

\* C4: two rings that hold the same node set, however each was built, answer
\* every Lookup alike, also when tokens of different nodes share a hash.
C4_LookupDeterministic ==
    NodesOf(ring[1]) = NodesOf(ring[2]) =>
        \A h \in HashSpace, R \in 1..Cardinality(NodeIds) :
            Lookup(ring[1], h, R) = Lookup(ring[2], h, R)

IsPrefix(a, b) == Len(a) <= Len(b) /\ SubSeq(b, 1, Len(a)) = a

\* C5: when AddNode(D) adds a new node to a ring of at least R nodes, for every
\* key at least R-1 of the R nodes Lookup returned before are still returned,
\* and the new result without D is a prefix of the old one.
C5_AddNodeStable ==
    [][\A D \in NodeIds :
          (D \notin NodesOf(ring[1]) /\ NodesOf(ring'[1]) = NodesOf(ring[1]) \cup {D}) =>
             \A h \in HashSpace, R \in 1..Cardinality(NodesOf(ring[1])) :
                LET old == Lookup(ring[1], h, R)
                    new == Lookup(ring'[1], h, R)
                IN /\ Cardinality(SeqRange(old) \cap SeqRange(new)) >= R - 1
                   /\ IsPrefix(SelectSeq(new, LAMBDA n : n # D), old)]_vars

\* C6: in UploadSegment, when the replica set looked up in the ring does not
\* contain the local node id, the call ends with ReplicaSetMissingPrimary, no
\* replication RPC has been issued and no SegmentRecord is written; a call
\* that fans out or completes does so over a replica set holding the local id.
C6_MissingPrimaryFailsFast ==
    /\ (up.targets # <<>> /\ Self \notin SeqRange(up.targets))
           => /\ up.pc = "done"
              /\ up.err = "MissingPrimary"
              /\ up.rpcs = {}
              /\ ~up.record.written
    /\ (up.pc = "wait" \/ (up.pc = "done" /\ up.err = "nil"))
           => Self \in SeqRange(up.targets)
    /\ up.rpcs \subseteq SeqRange(up.targets)

\* C6 happens: an upload stored locally ended with ReplicaSetMissingPrimary.
C6_Witness ==
    /\ up.pc = "done"
    /\ up.err = "MissingPrimary"
    /\ up.targets # <<>>
    /\ Self \notin SeqRange(up.targets)
    /\ files.final.exists

\* C7: FS.Put is atomic on the final path: when it returns success the final
\* path holds the whole payload and the returned size and checksum are those
\* of the payload; when a step fails it returns an error and the final path
\* is what it was before the call.
C7_PutAtomic ==
    fsRes.err # "none" =>
        /\ fsRes.err = "nil" =>
               /\ files.final = [exists |-> TRUE, bytes |-> fsRes.data]
               /\ fsRes.n = Len(fsRes.data)
               /\ fsRes.sum = Sha256(fsRes.data)
        /\ fsRes.fault # "none" =>
               /\ fsRes.err = "error"
               /\ files.final = fsRes.before

\* C9: with a metadata store, a completed UploadSegment has written a
\* SegmentRecord exactly when the local write succeeded and the merged
\* replication error is nil; when a peer failed the call still answers and
\* writes no record; the replicas of a written record are targets whose
\* replication was acknowledged.
C9_RecordIffLocalAndReplicated ==
    (up.pc = "done" /\ up.err = "nil" /\ upCfg.hasMetadata) =>
        /\ up.record.written <=> (up.localOK /\ up.agg = "nil")
        /\ (\E t \in NodeIds : up.results[t] = "error") => ~up.record.written
        /\ up.record.written =>
               \A i \in 1..Len(up.record.replicas) :
                   up.results[up.record.replicas[i]] = "nil"

\* The plan Rebalancer.Run builds for a persisted ring state.
PlanOf(state) == [version |-> state.version, assignments |-> state.tokens]

\* C8: while the Rebalancer runs, the plans handed to ExecutePlan are, in
\* order, the plans of the ring states persisted so far, one per persist and
\* none skipped: they form a prefix of the persisted states.
C8_EveryPersistExecutedInOrder ==
    reb.pc # "stopped" =>
        /\ Len(started) <= Len(persisted)
        /\ \A i \in 1..Len(started) : started[i] = PlanOf(persisted[i])

\* What Nodes() and Assignments() show of a manager.
Observed(m) == mgr[m]

Drained(m) == watchCh[m] = <<>> /\ held[m] = NoEvent

\* C11: two watching managers that upsert concurrently converge: when every
\* event written so far has been handled by the Watch goroutines (so that
\* nothing changes any more unless a new update is issued), each manager
\* holds the node set, tokens and version last written to the store.
C11_WatchersConverge ==
    (ringStore.present /\ \A m \in Mgrs : Drained(m))
        => \A m \in Mgrs : mgr[m] = ringStore.state

\* C12: the versions of the ring states written to the store, in the order
\* of the writes, strictly increase.
C12_StoredVersionIncreases ==
    \A i \in 1..(Len(persisted) - 1) : persisted[i].version < persisted[i + 1].version

\* The token list of a ring state is consistent with its node set.
TokensConsistent(state) ==
    LET t == state.tokens
    IN /\ { t[i].node : i \in 1..Len(t) } = state.nodes
       /\ \A n \in state.nodes : Cardinality({ i \in 1..Len(t) : t[i].node = n }) = VNodes
       /\ \A i, j \in 1..Len(t) : i # j => t[i].id # t[j].id
       /\ \A i, j \in 1..Len(t) : i < j =>
             \/ t[i].token < t[j].token
             \/ /\ t[i].token = t[j].token
                /\ \/ NodeIndex[t[i].id[1]] < NodeIndex[t[j].id[1]]
                   \/ t[i].id[1] = t[j].id[1] /\ t[i].id[2] < t[j].id[2]

\* C13: in every state of every RingManager the nodes owning tokens are the
\* registered nodes, each owns V tokens with distinct ids, and the tokens
\* are sorted by hash, ties by token id.
C13_TokensConsistent ==
    \A m \in Mgrs : TokensConsistent(mgr[m])

\* C13 happens: a manager has just applied a watch event whose ring has two
\* nodes with tokens of one hash.
C13_Witness ==
    \E m \in Mgrs :
        /\ held[m] # NoEvent
        /\ \E i, j \in 1..Len(mgr[m].tokens) :
              /\ mgr[m].tokens[i].token = mgr[m].tokens[j].token
              /\ mgr[m].tokens[i].node # mgr[m].tokens[j].node

\* C14: GetMetadata answers with what the caller's preceding call committed
\* to the relational store: after a PutMetadata that returned success the
\* put value with the returned version, after a PutMetadata whose commit
\* succeeded and whose mirror write was refused the put value, after a
\* DeleteMetadata that committed NotFound.
C14_GetReturnsLastCommit ==
    (getRes.res # "none" /\ getRes.prev.pc = "done" /\ getRes.prev.key = getRes.key) =>
        /\ (getRes.prev.op = "put" /\ getRes.prev.res = "OK") =>
               /\ getRes.res = "OK"
               /\ getRes.value = getRes.prev.value
               /\ getRes.version = getRes.prev.resVer
        /\ (getRes.prev.op = "put" /\ getRes.prev.res = "RevisionConflict") =>
               getRes.res = "OK" /\ getRes.value = getRes.prev.value
        /\ (getRes.prev.op = "del" /\ getRes.prev.res \in {"OK", "RevisionConflict"}) =>
               getRes.res = "NotFound"

\* C14 happens: a Get after the second successful Put of a key returned
\* version 2.
C14_Witness ==
    /\ getRes.res = "OK"
    /\ getRes.prev.pc = "done"
    /\ getRes.prev.op = "put"
    /\ getRes.prev.res = "OK"
    /\ getRes.version = 2

\* The step of caller c leaves the relational store and the mirror as they are.
StoresUnchanged == entries' = entries /\ etcdKV' = etcdKV /\ etcdRev' = etcdRev

\* C15: an attempt of PutMetadata with expected_version > 0 ends the call
\* with NotFound when the key has no row and with VersionMismatch when the
\* row has another version, and only then; the call has changed neither the
\* row nor the mirror: not in this step, and not in an earlier attempt,
\* which ended in a failed commit.
C15_PutGuardErrors ==
    [][\A c \in Clients :
          LET k == cl[c].key
              row == entries[k]
          IN /\ (cl[c].op = "put" /\ cl[c].pc = "txget" /\ cl'[c] # cl[c] /\ cl[c].expVer > 0) =>
                   /\ row = NoRec =>
                         cl'[c].pc = "done" /\ cl'[c].res = "NotFound" /\ StoresUnchanged
                   /\ (row # NoRec /\ row.version # cl[c].expVer) =>
                         cl'[c].pc = "done" /\ cl'[c].res = "VersionMismatch" /\ StoresUnchanged
                   /\ (row # NoRec /\ row.version = cl[c].expVer) => cl'[c].pc = "commit"
             /\ (cl[c].op = "put" /\ cl[c].pc # "done" /\ cl'[c].pc = "done"
                    /\ cl'[c].res \in {"NotFound", "VersionMismatch"}) =>
                   cl[c].pc = "txget" /\ cl[c].expVer > 0
             /\ (cl[c].pc = "commit" /\ cl'[c].pc = "txget") => StoresUnchanged]_vars

\* C15 happens: a PutMetadata expecting a stale version of an existing row
\* was refused.
C15_Witness ==
    \E c \in Clients :
        /\ cl[c].pc = "done"
        /\ cl[c].op = "put"
        /\ cl[c].expVer > 0
        /\ cl[c].res = "VersionMismatch"
        /\ entries[cl[c].key] # NoRec

\* DeleteMetadata of caller c: its attempt ends the call with NotFound when
\* the key has no row and with VersionMismatch when an expected version is
\* given and differs, without a change to either store, and goes on to the
\* commit otherwise; these errors come from nowhere else.
DeleteGuarded(c) ==
    LET row == entries[cl[c].key]
    IN /\ (cl[c].op = "del" /\ cl[c].pc = "txget" /\ cl'[c] # cl[c]) =>
             /\ row = NoRec =>
                   cl'[c].pc = "done" /\ cl'[c].res = "NotFound" /\ StoresUnchanged
             /\ (row # NoRec /\ cl[c].expVer > 0 /\ row.version # cl[c].expVer) =>
                   cl'[c].pc = "done" /\ cl'[c].res = "VersionMismatch" /\ StoresUnchanged
             /\ (row # NoRec /\ (cl[c].expVer > 0 => row.version = cl[c].expVer)) =>
                   cl'[c].pc = "commit"
       /\ (cl[c].op = "del" /\ cl[c].pc # "done" /\ cl'[c].pc = "done"
              /\ cl'[c].res \in {"NotFound", "VersionMismatch"}) => cl[c].pc = "txget"
       /\ (cl[c].op = "del" /\ cl[c].pc = "commit" /\ cl'[c].pc = "txget") => StoresUnchanged

\* Caller c's DeleteMetadata returns success in this step.
DeleteReturnsOK(c) ==
    cl[c].op = "del" /\ cl[c].pc = "etcd" /\ cl'[c].pc = "done" /\ cl'[c].res = "OK"

RetryStep(c) ==
    LET stale == entries[cl[c].key].version # cl[c].readVer
        finishes == cl[c].pc # "done" /\ cl'[c].pc = "done"
    IN \* a new attempt starts only after a commit that failed on a stale read
       /\ (cl[c].pc # "idle" /\ cl[c].pc # "done" /\ cl'[c].pc = "txget" /\ cl'[c] # cl[c]) =>
             /\ cl[c].pc = "commit" /\ stale
             /\ cl'[c].attempt = cl[c].attempt + 1
             /\ cl'[c].attempt < maxRetries
       \* the serialisation error is returned when the last attempt failed
       /\ (finishes /\ cl'[c].res = "Serialization") =>
             cl[c].pc = "commit" /\ stale /\ cl'[c].attempt = maxRetries
       \* another error is returned by the attempt that met it
       /\ (finishes /\ cl'[c].res \in {"NotFound", "VersionMismatch"}) =>
             cl[c].pc = "txget" /\ cl'[c].attempt = cl[c].attempt

\* C17: PutMetadata and DeleteMetadata start another attempt only after a
\* serialisation failure and make at most maxRetries attempts; the
\* serialisation error is returned only when all maxRetries attempts
\* failed, any other error by the attempt that met it; every call returns.
C17_RetryBoundedAndTerminates ==
    /\ [][\A c \in Clients : RetryStep(c)]_vars
    /\ [](\A c \in Clients : cl[c].attempt <= maxRetries)
    /\ \A c \in Clients : (cl[c].pc \in {"txget", "commit", "etcd"}) ~> (cl[c].pc = "done")

\* C17 happens: a call returned the serialisation error after two attempts.
C17_Witness ==
    \E c \in Clients :
        /\ cl[c].pc = "done"
        /\ cl[c].res = "Serialization"
        /\ cl[c].attempt = 2
        /\ maxRetries = 2

\* C18: the coordination-store step of a PutMetadata called with
\* expected_cs_revision >= 0, when the mirror key's mod revision (0 for an
\* absent key) differs from it, ends the call with RevisionConflict and
\* changes neither the mirror nor the relational store, whose row was
\* installed with the call's version by its commit; RevisionConflict has no
\* other cause, and with a matching revision or none the mirror is written.
C18_RevisionConflict ==
    [][\A c \in Clients :
          LET k == cl[c].key
              differs == cl[c].expRev >= 0 /\ etcdKV[k].modRevision # cl[c].expRev
          IN /\ (cl[c].op = "put" /\ cl[c].pc = "commit" /\ cl'[c].pc = "etcd") =>
                   entries'[k] = [version |-> cl[c].newVer, value |-> cl[c].value]
             /\ (cl[c].op = "put" /\ cl[c].pc = "etcd" /\ cl'[c] # cl[c]) =>
                   IF differs
                   THEN cl'[c].pc = "done" /\ cl'[c].res = "RevisionConflict" /\ StoresUnchanged
                   ELSE /\ cl'[c].res = "OK"
                        /\ etcdKV'[k].version = cl[c].newVer
                        /\ etcdKV'[k].modRevision = etcdRev + 1
             /\ (cl[c].op = "put" /\ cl[c].pc # "done" /\ cl'[c].pc = "done"
                    /\ cl'[c].res = "RevisionConflict") => cl[c].pc = "etcd" /\ differs]_vars

\* C18 happens: a PutMetadata was refused by the revision compare after its
\* commit, and the mirror is behind the relational row.
C18_Witness ==
    \E c \in Clients :
        /\ cl[c].pc = "done"
        /\ cl[c].op = "put"
        /\ cl[c].res = "RevisionConflict"
        /\ entries[cl[c].key] # NoRec
        /\ etcdKV[cl[c].key].version # entries[cl[c].key].version

\* C19: a ListMetadata call returns the first min(limit, n) keys, ascending,
\* of the n stored keys that have the prefix and are greater than the page
\* token (all with the prefix when the token is empty), and a next page
\* token exactly when n > limit.
C19_ListPageExact ==
    [][(lst.pc = "paging" /\ lst' # lst) =>
          LET limit == IF lst.limit <= 0 THEN DefaultLimit ELSE lst.limit
              matching == SortKeys({ k \in KeyUniverse :
                                       /\ entries[k] # NoRec
                                       /\ hasPrefix(k, lst.prefix)
                                       /\ (lst.token = <<>> \/ LexLess(lst.token, k)) })
              n == Len(matching)
              page == SubSeq(lst'.out, Len(lst.out) + 1, Len(lst'.out))
          IN /\ page = SubSeq(matching, 1, IF n < limit THEN n ELSE limit)
             /\ (lst'.token # <<>>) <=> (n > limit)]_vars

\* Owner of the first token, in ring order, whose hash is at least h; the
\* owner of the very first token when every token hash is below h.
FirstOwner(tokens, h) ==
    LET at == { i \in 1..Len(tokens) : tokens[i].hash >= h }
    IN IF at = {} THEN tokens[1].node
       ELSE tokens[CHOOSE i \in at : \A j \in at : i <= j].node

\* C20: Ring.Lookup(key, R) returns no node twice, returns min(R, number of
\* distinct nodes) ids, starts with the owner of the first token whose hash is
\* at least H(key), wrapping to the first token, and is empty for an empty
\* ring or R <= 0.
C20_LookupShape ==
    \A h \in HashSpace, R \in (-1)..(Cardinality(NodeIds) + 1) :
        LET out == Lookup(ring[1], h, R)
            n == Cardinality(NodesOf(ring[1]))
        IN IF R <= 0 \/ Len(ring[1]) = 0
           THEN out = <<>>
           ELSE /\ \A i, j \in 1..Len(out) : out[i] = out[j] => i = j
                /\ Len(out) = (IF R < n THEN R ELSE n)
                /\ SeqRange(out) \subseteq NodesOf(ring[1])
                /\ out[1] = FirstOwner(ring[1], h)

\* C20 witness: a ring of three nodes where one key hash wraps past the last
\* token, another starts in the middle of the ring on a node other than the
\* first token's, and a walk has to skip a second token of a node already taken.
C20_Witness ==
    /\ Cardinality(NodesOf(ring[1])) = 3
    /\ \E h \in HashSpace : Search(ring[1], h) = Len(ring[1])
    /\ \E h \in HashSpace :
          /\ Search(ring[1], h) \in 1..(Len(ring[1]) - 1)
          /\ Lookup(ring[1], h, 1)[1] # ring[1][1].node
          /\ Len(Lookup(ring[1], h, 2)) = 2
    /\ \E i \in 1..(Len(ring[1]) - 1) : ring[1][i].node = ring[1][i + 1].node

\* The tasks UploadSegment spawned that returned an error: peers of the
\* replica set, and the cold-tier upload when the header asked for it.
FailedPeers == { t \in SeqRange(up.targets) \ {Self} : up.results[t] = "error" }
FailedTasks == FailedPeers \cup (IF up.s3 /\ up.results["s3"] = "error" THEN {"s3"} ELSE {})

\* C21 as stated: the aggregate replication error of a completed UploadSegment
\* is non-nil if and only if at least one peer replication returned an error.
C21_AggregateIffPeerFailed ==
    (up.pc = "done" /\ up.agg # "none") =>
        (up.agg # "nil" <=> FailedPeers # {})

\* C21 amended: the aggregate replication error of a completed UploadSegment
\* is non-nil if and only if at least one spawned task, a peer replication or
\* the cold-tier upload, returned an error.
C21_AggregateIffTaskFailed ==
    (up.pc = "done" /\ up.agg # "none") =>
        (up.agg # "nil" <=> FailedTasks # {})

\* C21 happens: an upload over a replica set with two peers completed with a
\* non-nil aggregate error after one peer failed and the other acknowledged.
C21_Witness ==
    /\ up.pc = "done"
    /\ up.agg = "error"
    /\ \E t \in FailedPeers : TRUE
    /\ \E t \in SeqRange(up.targets) \ {Self} : up.results[t] = "nil"

\* C22: in UploadSegment the local blob write has completed before any
\* replication RPC or cold-tier upload starts, and an upload whose local write
\* failed ends with an error, has attempted no replication and has written no
\* SegmentRecord.
C22_LocalWriteFirst ==
    /\ (up.pc = "wait" \/ up.rpcs # {} \/ up.results["s3"] # "none")
           => /\ up.localOK
              /\ files.final = [exists |-> TRUE, bytes |-> up.data]
    /\ (up.pc # "idle" /\ up.err # "InvalidArgument" /\ ~up.localOK)
           => /\ up.pc = "done"
              /\ up.err = "Storage"
              /\ up.rpcs = {}
              /\ up.results["s3"] = "none"
              /\ ~up.record.written

\* C23: RingManager.RemoveNode(id) for an id the manager does not hold returns
\* the current version without error, leaves nodes, tokens and version as
\* they were, and writes nothing to the store: no watcher is notified and the
\* Watch goroutines have nothing new to apply or emit.
C23_RemoveAbsentIsNoOp ==
    [][\A m \in Mgrs, node \in MgrNodes, putOk \in BOOLEAN :
          (node \notin mgr[m].nodes /\ MgrRemoveNode(m, node, putOk, MaxTokenCalls)) =>
              /\ mgrRes'[m] = [op |-> "RemoveNode", err |-> "nil", version |-> mgr[m].version]
              /\ mgr' = mgr
              /\ ringStore' = ringStore
              /\ persisted' = persisted
              /\ watchCh' = watchCh
              /\ held' = held
              /\ events' = events]_vars

\* C23 happens: a manager holding a node, with one state written to the store
\* so far, has answered a RemoveNode of another id with its current version.
C23_Witness ==
    \E m \in Mgrs :
        /\ mgrRes[m] = [op |-> "RemoveNode", err |-> "nil", version |-> mgr[m].version]
        /\ mgr[m].nodes # {}
        /\ mgr[m].version = 1
        /\ Len(persisted) = 1
        /\ mgrCalls = 2

\* A step in which the Watch goroutine of m receives from its subscription.
Receives(m) == watchCh[m] # <<>> /\ watchCh'[m] = Tail(watchCh[m])

\* C24: the subscription channel of a Watch is extended in store order, by the
\* state just written to the ring key or by another event under the prefix.
\* Receiving a put of the ring key, the goroutine makes the decoded state the
\* local state and holds one RingEvent with that state's version and
\* assignments; it receives nothing more until that event is sent (or the
\* context is done), and the events channel grows only by that event.
\* Receiving a delete or an event of another key changes no local state and
\* sends nothing.
C24_WatchAppliesThenEmits ==
    [][\A m \in Mgrs :
          /\ Len(watchCh'[m]) > Len(watchCh[m]) =>
                \E x \in OtherEvents \cup {ringStore'.state} :
                    /\ watchCh'[m] = Append(watchCh[m], x)
                    /\ IsRingPut(x) => persisted' = Append(persisted, x)
          /\ Receives(m) =>
                LET evt == Head(watchCh[m])
                IN /\ held[m] = NoEvent
                   /\ events' = events
                   /\ IF IsRingPut(evt)
                      THEN /\ mgr'[m].version = evt.version
                           /\ mgr'[m].nodes = evt.nodes
                           /\ held'[m] = [version |-> evt.version, assignments |-> evt.tokens]
                      ELSE mgr'[m] = mgr[m] /\ held'[m] = NoEvent
          /\ Len(events'[m]) > Len(events[m]) =>
                /\ held[m] # NoEvent
                /\ events'[m] = Append(events[m], held[m])
                /\ held'[m] = NoEvent
          /\ (held[m] # NoEvent /\ held'[m] # held[m]) =>
                \/ events'[m] = Append(events[m], held[m])
                \/ ctx[m].done /\ ctx'[m].eventsClosed]_vars

\* C24 happens: a put of the ring key was delivered, applied and its event
\* sent, and then a delete of the ring key was delivered and passed over,
\* leaving the manager with the nodes of the put.
C24_Witness ==
    /\ ~ringStore.present
    /\ persisted # <<>>
    /\ watchCh[RebMgr] = <<>>
    /\ held[RebMgr] = NoEvent
    /\ events[RebMgr] # <<>>
    /\ events[RebMgr][Len(events[RebMgr])].version = mgr[RebMgr].version
    /\ mgr[RebMgr].nodes # {}
    /\ ~ctx[RebMgr].done

\* C25: once the context given to Watch is cancelled, or the subscription
\* channel of the store is closed, the goroutine of Watch eventually closes
\* the RingEvent channel; a closed RingEvent channel stays closed and nothing
\* is sent on it any more (it only loses what its reader takes).
C25_EventsChannelCloses ==
    /\ ctx[RebMgr].done ~> ctx[RebMgr].eventsClosed
    /\ ctx[RebMgr].chClosed ~> ctx[RebMgr].eventsClosed
    /\ [][\A m \in Mgrs :
             ctx[m].eventsClosed =>
                 /\ ctx'[m].eventsClosed
                 /\ held'[m] = NoEvent
                 /\ events'[m] = events[m] \/ events'[m] = Tail(events[m])]_vars

\* C25 happens: the context was cancelled after the reader of the events
\* channel had gone; the goroutine has returned and closed the channel, with
\* events unread in it and store events left in the subscription channel.
C25_Witness ==
    /\ ctx[RebMgr].done
    /\ ctx[RebMgr].eventsClosed
    /\ events[RebMgr] # <<>>
    /\ reb.pc = "stopped"
    /\ watchCh[RebMgr] # <<>>

\* Rebalancer.Run has returned: with the executor's error, or with nil.
RunReturned == reb.pc \in {"stopped", "returned"}

\* C26: when ExecutePlan returns an error Rebalancer.Run returns it, and when
\* it returns nil Run goes on; Run returns nil only from its select, with the
\* context done or the events channel closed and drained; after Run has
\* returned no event is taken and no plan executed; with a nil executor Run
\* never returns an error; once the context is done Run returns.
C26_RunReturns ==
    /\ [][/\ RebReturn(FALSE) => reb'.pc = "stopped"
          /\ RebReturn(TRUE) => reb'.pc = "idle"
          /\ reb'.pc = "stopped" /\ reb.pc # "stopped" => RebReturn(FALSE)
          /\ reb'.pc = "returned" /\ reb.pc # "returned" =>
                /\ reb.pc = "idle"
                /\ ctx[RebMgr].done \/ (ctx[RebMgr].eventsClosed /\ events[RebMgr] = <<>>)
          /\ RunReturned =>
                /\ reb' = reb
                /\ started' = started
                /\ Len(events'[RebMgr]) >= Len(events[RebMgr])]_vars
    /\ [](executorNil => reb.pc # "stopped")
    /\ ctx[RebMgr].done ~> RunReturned

\* C26 happens: Run has returned the error of the first ExecutePlan call and
\* a later event stays unprocessed in the events channel.
C26_Witness ==
    /\ reb.pc = "stopped"
    /\ Len(started) = 1
    /\ events[RebMgr] # <<>>
    /\ ~ctx[RebMgr].done

\* The PUTs of the request that were acknowledged with 201.
Acked == { i \in 1..Len(web.results) : web.results[i].status = 201 }

\* C27: an /upload request that got as far as the PUTs is answered 201 when
\* the number of replicas that acknowledged their PUT with 201 is at least W
\* and 502 otherwise, and by then one PUT has been attempted on every replica
\* of the list, in list order, also past the point where W was reached.
C27_QuorumAnswer ==
    /\ \A i \in 1..Len(web.results) :
          i <= Len(web.replicas) /\ web.results[i].base = web.replicas[i]
    /\ (web.pc = "done" /\ web.status \notin {400, 405, 503}) =>
          /\ Len(web.results) = Len(web.replicas)
          /\ web.status = (IF Cardinality(Acked) >= web.W THEN 201 ELSE 502)
    /\ (web.pc = "done" /\ web.status \in {400, 405, 503}) => web.results = <<>>

\* C27 happens: with W = 2 the first two replicas acknowledged, the third
\* was still attempted and failed, and the answer is 201.
C27_Witness ==
    /\ web.pc = "done"
    /\ web.status = 201
    /\ web.W = 2
    /\ Len(web.results) = 3
    /\ Acked = {1, 2}
    /\ web.results[3].status = 500

\* The node id is live in manager m: registered, and owning tokens.
Live(m, id) ==
    /\ id \in mgr[m].nodes
    /\ \E i \in 1..Len(mgr[m].tokens) : mgr[m].tokens[i].node = id

\* C28: a successful UpsertNode(id) leaves the node live in the manager and
\* registered in the stored ring state, and a node of a manager, or of the
\* stored state, becomes absent only by a RemoveNode of that id: not by an
\* UpsertNode or RemoveNode of another id, and not by a watch event.
C28_LiveUntilRemoved ==
    [][\A m \in Mgrs, id \in MgrNodes :
          /\ UpsertNode(m, id, TRUE, MaxMgrCalls) =>
                /\ Live(m, id)'
                /\ ringStore'.present /\ id \in ringStore'.state.nodes
          /\ (id \in mgr[m].nodes /\ id \notin mgr'[m].nodes) =>
                \E putOk \in BOOLEAN : MgrRemoveNode(m, id, putOk, MaxMgrCalls)
          /\ (id \in ringStore.state.nodes /\ id \notin ringStore'.state.nodes) =>
                \E r \in Mgrs : MgrRemoveNode(r, id, TRUE, MaxMgrCalls)]_vars

\* The peers of the replica set, and the tasks UploadSegment spawns.
Peers == SeqRange(up.targets) \ {Self}
Tasks == Peers \cup (IF up.s3 THEN {"s3"} ELSE {})

\* The entries of a replica_status that report the task t.
EntriesOf(st, t) == { i \in 1..Len(st) : st[i].node = t }

\* What C29 says of the calls: ReplicateSegment is called only on peers, at
\* most once on each, and a response is built only when every task has
\* recorded its result, one call having been made to every peer.
FanoutOncePerPeer ==
    /\ [](up.rpcs \subseteq Peers)
    /\ [][\A t \in TaskNames :
             (up.pc = "wait" /\ up.results[t] # "none") => up'.results[t] = up.results[t]]_vars
    /\ []((up.pc = "done" /\ up.err = "nil") =>
             /\ up.pending = {}
             /\ up.rpcs = Peers
             /\ \A t \in Tasks : up.results[t] # "none")

C30_VersionNeverDecreases ==
    [][\A m \in Mgrs : Observed(m)'.version >= Observed(m).version]_vars


----------------------------------------------------------------------------
(* C31: the relational version of a key over its whole history *)

\* C31: for each key the version stored in the relational store strictly
\* increases over the whole history of the key, writes that follow a
\* DeleteMetadata included: a commit that writes the row of k writes a version
\* above every version written to k before (the versions in returned[k] were
\* all committed to the row earlier).
C31_RowVersionIncreases ==
    [][\A k \in MetaKeys :
          (entries'[k] # entries[k] /\ entries'[k] # NoRec)
             => \A i \in 1..Len(returned[k]) : entries'[k].version > returned[k][i]]_vars

----------------------------------------------------------------------------
(* C32: recovery of a PutMetadata that failed in the coordination store *)

\* The call of c in progress is the retry of C32: the relational row and the
\* mirror of its key had diverged when it was issued (a PutMetadata committed
\* its row and then lost the compare in the coordination store), and it was
\* given the version the row had then and the mod revision the mirror has.
\* With one caller the stores change only by the steps of the call itself, so
\* before its Commit the row still has the expected version and after it the
\* row has the next one.
IsRecoveryPut(c) ==
    LET k == cl[c].key IN
    /\ cl[c].op = "put"
    /\ cl[c].expVer > 0
    /\ cl[c].expRev = etcdKV[k].modRevision
    /\ etcdKV[k].version # cl[c].expVer
    /\ \/ cl[c].pc \in {"txget", "commit"} /\ entries[k].version = cl[c].expVer
       \/ cl[c].pc = "etcd" /\ entries[k].version = cl[c].expVer + 1

\* C32: after a PutMetadata whose relational transaction committed and whose
\* coordination-store step failed, the caller's retry with the version now in
\* the relational store and the current mod revision of the mirror succeeds,
\* and when it returns the mirror holds the version (and value) of the row.
C32_RetryBringsMirrorForward ==
    [][\A c \in Clients :
          (IsRecoveryPut(c) /\ cl'[c].pc = "done")
             => /\ cl'[c].res = "OK"
                /\ etcdKV'[cl[c].key].version = entries'[cl[c].key].version
                /\ etcdKV'[cl[c].key].value = entries'[cl[c].key].value
                /\ cl'[c].resVer = entries'[cl[c].key].version]_vars

\* C32 witness: the first PutMetadata returned version 1, the second committed
\* version 2 and lost the compare, and the retry with expected version 2
\* returned version 3, which the row and the mirror both hold.
C32_Witness ==
    /\ cl["c1"].pc = "done" /\ cl["c1"].op = "put" /\ cl["c1"].res = "OK"
    /\ cl["c1"].expVer = 2 /\ cl["c1"].resVer = 3
    /\ returned[<<1>>] = <<1, 3>>
    /\ entries[<<1>>].version = 3 /\ etcdKV[<<1>>].version = 3

----------------------------------------------------------------------------
(* C33: the Rebalancer executes one plan at a time *)

\* C33: the Rebalancer never has two ExecutePlan calls in progress. A step
\* that starts an ExecutePlan call is taken while no call is in progress, the
\* plan it starts is the one of the event at the head of the events channel
\* (so plans are executed in the order the events are received), and the call
\* in progress is always the one started last; a step that receives an event
\* is a step that starts its plan.
C33_OnePlanAtATime ==
    /\ [](reb.pc = "executing" =>
            /\ started # <<>>
            /\ reb.plan = started[Len(started)])
    /\ [][/\ started' # started =>
               /\ reb.pc = "idle"
               /\ events[RebMgr] # <<>>
               /\ started' = Append(started, Head(events[RebMgr]))
               /\ reb'.pc = "executing"
               /\ reb'.plan = Head(events[RebMgr])
          /\ (events[RebMgr] # <<>> /\ events'[RebMgr] = Tail(events[RebMgr]))
                => started' = Append(started, Head(events[RebMgr]))]_vars

\* C33 witness: the first ExecutePlan returned and the second is in progress
\* while a third event waits in the events channel.
C33_Witness ==
    /\ reb.pc = "executing"
    /\ Len(started) = 2
    /\ started[1] # started[2]
    /\ events[RebMgr] # <<>>

----------------------------------------------------------------------------
(* C34: the effect of Ring.RemoveNode *)

\* The positions of the tokens of `before` that belong to another node than id.
KeptPositions(before, id) == { i \in 1..Len(before) : before[i].node # id }

\* `after` is `before` without the tokens of id: every other token is still
\* there, at the rank it had among the other tokens.
RemovedExactly(before, after, id) ==
    LET kept == KeptPositions(before, id) IN
    /\ Len(after) = Cardinality(kept)
    /\ \A i \in kept : after[Cardinality({ j \in kept : j <= i })] = before[i]

\* The nodes some Lookup on the tokens returns.
Returned(tokens) ==
    UNION { SeqRange(Lookup(tokens, h, R)) : h \in HashSpace, R \in 1..Cardinality(NodeIds) }

\* C34: Ring.RemoveNode(id) removes every token of id and nothing else: the
\* tokens of the other nodes remain in the same relative order, which is still
\* sorted by hash; no Lookup returns id afterwards, and a node no Lookup
\* returns is returned again only by a step that adds it.
C34_RemoveNodeExact ==
    [][\A id \in NodeIds :
          /\ RingRemoveNode(1, id) =>
               /\ RemovedExactly(ring[1], ring'[1], id)
               /\ id \notin NodesOf(ring'[1])
               /\ \A i \in 1..(Len(ring'[1]) - 1) : ring'[1][i].hash <= ring'[1][i + 1].hash
               /\ id \notin Returned(ring'[1])
          /\ (id \notin Returned(ring[1]) /\ id \in Returned(ring'[1]))
               => (id \notin NodesOf(ring[1]) /\ id \in NodesOf(ring'[1]))]_vars

\* C34 witness: a node whose two tokens are not adjacent has been removed from
\* a ring of three nodes that returned it, and the four tokens of the two
\* other nodes interleave.
C34_Witness ==
    /\ NodesOf(ring[1]) = {"A", "C"}
    /\ Len(ring[1]) = 4
    /\ ring[1][1].node # ring[1][2].node
    /\ ring[1][2].node # ring[1][3].node
    /\ hashOf[<<"B", 0>>] < ring[1][2].hash
    /\ hashOf[<<"B", 1>>] > ring[1][3].hash

----------------------------------------------------------------------------
(* C35: a RingManager constructed on an existing store *)

\* RingManager.Lookup of a manager whose state holds these nodes: the Lookup of
\* m.ring, which rebuildLocked built from the node ids of the state.
ManagerLookup(nodes, h, R) ==
    Lookup(BuildRing(<<>>, hashOf, SortIds(nodes)), h, R)

\* C35: a RingManager constructed on a store that holds a ring state starts
\* with the node set, the version and the token assignments of that state,
\* which is the last state a manager persisted, and answers every Lookup as
\* the manager that persisted it did; constructed on a store without the ring
\* key it starts with no node, version 0, and every Lookup is empty.
C35_BootstrapEqualsPersisted ==
    [][\A m \in Mgrs :
          MgrBootstrap(m, MaxTokenCalls) =>
             IF ringStore.present
             THEN /\ persisted # <<>>
                  /\ ringStore.state = persisted[Len(persisted)]
                  /\ mgr'[m].nodes = persisted[Len(persisted)].nodes
                  /\ mgr'[m].version = persisted[Len(persisted)].version
                  /\ mgr'[m].tokens = persisted[Len(persisted)].tokens
                  /\ \A h \in UploadKeyHashes, R \in 0..Cardinality(NodeIds) :
                        ManagerLookup(mgr'[m].nodes, h, R)
                           = ManagerLookup(persisted[Len(persisted)].nodes, h, R)
             ELSE /\ mgr'[m].nodes = {}
                  /\ mgr'[m].version = 0
                  /\ mgr'[m].tokens = <<>>
                  /\ \A h \in UploadKeyHashes, R \in 0..Cardinality(NodeIds) :
                        ManagerLookup(mgr'[m].nodes, h, R) = <<>>]_vars

\* C35 witness: m1 registered a node and persisted version 1, and m2, which
\* held nothing, was constructed on that store and now holds that state and
\* returns the node for a key.
C35_Witness ==
    /\ mgrRes["m1"].op = "UpsertNode" /\ mgrRes["m1"].err = "nil"
    /\ mgrRes["m2"] = NoCall
    /\ mgrCalls = 2
    /\ ringStore.present
    /\ mgr["m2"] = ringStore.state
    /\ mgr["m2"].version = 1
    /\ ManagerLookup(mgr["m2"].nodes, 0, 1) # <<>>

----------------------------------------------------------------------------
(* C36: the mirror in the coordination store when the service is quiescent *)

\* No call is in flight and every call issued so far returned success: each
\* caller has issued one call, and it returned without error.
AllCallsSucceeded ==
    /\ calls = Cardinality(Clients)
    /\ \A c \in Clients : cl[c].pc = "done" /\ cl[c].res = "OK"

\* C36: whenever no metadata operation is in flight and every PutMetadata and
\* DeleteMetadata call issued on a key returned success, with any expected
\* revision, the negative ones that skip the compare included, the item
\* mirrored in the coordination store has the value and version of the
\* relational row of the key, and is absent exactly when the row is absent.
C36_QuiescentMirrorEqualsRow ==
    AllCallsSucceeded =>
        \A k \in MetaKeys :
            /\ (etcdKV[k] = NoKV) <=> (entries[k] = NoRec)
            /\ etcdKV[k].version = entries[k].version
            /\ etcdKV[k].value = entries[k].value

----------------------------------------------------------------------------
(* C37: no lost update in the relational store *)

\* C37: a PutMetadata or DeleteMetadata transaction commits only if no other
\* transaction committed a write or delete of the same key between this
\* transaction's read of the key and its commit, the case where the key was
\* deleted and created again (or created and deleted again) in between
\* included.
C37_NoLostUpdate ==
    [][\A c \in Clients :
          (cl[c].pc = "commit" /\ cl'[c].pc = "etcd") => ~cl[c].stale]_vars

----------------------------------------------------------------------------
(* C38: the coordination store never sends on a closed subscription channel *)

\* C38: under any interleaving of cancellations of the Watch context and
\* commits, no step sends an event on a subscription channel that is closed:
\* a channel is closed only after its subscription left the registry, and a
\* subscription that left it is never sent to.
C38_NoSendOnClosedChannel ==
    /\ [](\A m \in Mgrs : ctx[m].chClosed => ~watching[m])
    /\ [][\A m \in Mgrs :
             /\ Len(watchCh'[m]) > Len(watchCh[m]) => (watching[m] /\ ~ctx[m].chClosed)
             /\ (~ctx[m].chClosed /\ ctx'[m].chClosed) => (ctx[m].done /\ ~watching[m])]_vars

\* C38 witness: the subscription of m1 was cancelled, removed and closed
\* before any event reached it, and m2 has committed a ring state since its
\* removal: the manager m1 never saw it.
C38_Witness ==
    /\ ctx["m1"].chClosed
    /\ mgrRes["m2"].err = "nil"
    /\ ringStore.present
    /\ watchCh["m1"] = <<>>
    /\ mgr["m1"] = EmptyState

----------------------------------------------------------------------------
(* C39: UpsertNode of a node that is already live *)

\* C39: an UpsertNode (a Heartbeat) that returns without error for a node id
\* the manager already holds leaves the manager's set of node ids and its
\* token assignments unchanged, increments the manager's ring version by
\* exactly one and returns it, writes that state to the store, and makes one
\* watch event of it: the one commit is sent once on every registered
\* subscription whose channel has room, and nothing else is sent.
C39_HeartbeatBumpsVersionOnly ==
    [][\A m \in Mgrs, node \in MgrNodes :
          (node \in mgr[m].nodes /\ UpsertNode(m, node, TRUE, MaxTokenCalls)) =>
             /\ mgr'[m].nodes = mgr[m].nodes
             /\ mgr'[m].tokens = mgr[m].tokens
             /\ mgr'[m].version = mgr[m].version + 1
             /\ mgrRes'[m] = [op |-> "UpsertNode", err |-> "nil", version |-> mgr[m].version + 1]
             /\ ringStore' = [present |-> TRUE, state |-> mgr'[m]]
             /\ persisted' = Append(persisted, mgr'[m])
             /\ \A w \in Mgrs :
                   watchCh'[w] = IF watching[w] /\ Len(watchCh[w]) < WatchBuffer
                                 THEN Append(watchCh[w], mgr'[m])
                                 ELSE watchCh[w]]_vars

\* C39 witness: m1, which watches, registered node A and then received a
\* heartbeat of A: version 2 with the node set and tokens of version 1, both
\* states persisted and both events in the subscription channel.
C39_Witness ==
    /\ mgr["m1"].version = 2
    /\ mgr["m1"].nodes = {"A"}
    /\ Len(persisted) = 2
    /\ persisted[1].nodes = persisted[2].nodes
    /\ persisted[1].tokens = persisted[2].tokens
    /\ persisted[2].version = persisted[1].version + 1
    /\ ringStore.state = persisted[2]
    /\ watchCh["m1"] = persisted

----------------------------------------------------------------------------
(* C40: UploadSegment on an empty ring *)

\* The upload is over and fs.Put had returned without error.
StoredAndDone == up.pc = "done" /\ up.results[Self] = "nil"

\* C40: when the ring is empty UploadSegment treats the replica set as [self].
\* It issues no replication RPC at any time; an upload whose local write
\* returned without error succeeds, with the replica set [self] and a
\* successful entry for self first in its status; and when a metadata store is
\* configured (and no cold-tier upload the header asked for failed) the
\* SegmentRecord has primary_node = self and no peer among its replicas, and
\* it is the record in the store once the store accepted it.
C40_EmptyRingUploadsToSelf ==
    ring[1] = <<>> =>
        /\ up.rpcs = {}
        /\ up.pending \subseteq {"s3"}
        /\ up.pc = "wait" => up.targets = <<Self>>
        /\ StoredAndDone =>
              /\ up.err = "nil"
              /\ up.targets = <<Self>>
              /\ up.status # <<>>
              /\ up.status[1] = [node |-> Self, success |-> TRUE]
              /\ \A i \in 1..Len(up.status) : up.status[i].node \notin NodeIds \ {Self}
        /\ (StoredAndDone /\ upCfg.hasMetadata /\ (up.s3 => up.results["s3"] = "nil")) =>
              /\ up.record.written
              /\ up.record.primary = Self
              /\ SeqRange(up.record.replicas) \cap NodeIds = {}
              /\ up.record.replicas = (IF up.s3 THEN <<"s3">> ELSE <<>>)
              /\ [node |-> "metadata", success |-> TRUE] \in SeqRange(up.status)
                    => segRecords = up.record
              /\ [node |-> "metadata", success |-> FALSE] \in SeqRange(up.status)
                    => segRecords = NoRecord

\* C40 witness: on an empty ring, with a metadata store, an upload of a
\* non-empty payload is stored locally and finished without any RPC, and the
\* store holds its record with primary self and no replica.
C40_Witness ==
    /\ ring[1] = <<>>
    /\ upCfg.hasMetadata
    /\ upCfg.replicationFactor = 3
    /\ up.pc = "done" /\ up.err = "nil"
    /\ up.data # <<>>
    /\ files.final.exists
    /\ up.targets = <<Self>>
    /\ up.rpcs = {}
    /\ segRecords.written
    /\ segRecords.primary = Self
    /\ segRecords.replicas = <<>>
    /\ up.status = <<[node |-> Self, success |-> TRUE], [node |-> "metadata", success |-> TRUE]>>

====
